---------------------------- MODULE Spec2Model ----------------------------
(***************************************************************************)
(* A model of the A-GRIMMER consistency test of bullshit_detector          *)
(* (src/src/bullshit_detector/grimmer.py): the two rounding helpers        *)
(* _round_half_down / _round_half_up and the staged function a_grimmer.    *)
(*                                                                         *)
(* Numbers.  The code computes in binary floating point; the model         *)
(* computes the same expressions in exact arithmetic on integers:          *)
(*   - a reported value with d decimals is the integer value * 10^d        *)
(*     (mean = 344 with decimals_mean = 2 is 3.44);                        *)
(*   - every other number is a record [num, den, root, eps] with den > 0:  *)
(*     num/den + eps * 10^-13 (root = 1) or sqrt(num/den) (root = 2).      *)
(*     eps is 0 for every number a_grimmer computes; a non-zero eps is a   *)
(*     float that lies next to num/den without being equal to it.          *)
(* A call is modelled step by step: pc is the position in a_grimmer.       *)
(***************************************************************************)
EXTENDS Integers, Sequences, FiniteSets, TLC

VARIABLES
    n,                  \* argument n
    mean,               \* argument mean, in units of 10^-decimals_mean
    sd,                 \* argument sd, in units of 10^-decimals_sd
    decimals_mean,      \* argument decimals_mean
    decimals_sd,        \* argument decimals_sd
    data,               \* the integer sample the arguments were computed from, or << >>
    pc,                 \* position in a_grimmer
    realsum,            \* local realsum (line 120), 0 until assigned
    possible_integers,  \* local possible_integers (line 154)
    matches_sd,         \* local matches_sd (lines 157-166)
    ret,                \* << >> until the call returns, then << the returned dict >>
    exc,                \* "none", or the exception the call raised
    arg_number,         \* argument number of a call of the rounding helpers
    arg_decimals,       \* argument decimals of that call
    half_down,          \* << >>, then << what _round_half_down returned >>
    half_up,            \* << >>, then << what _round_half_up returned >>
    fn,                 \* the Tier-0 lookup called: check_journal, check_retraction, check_author
    doi,                \* argument doi of check_retraction
    orcid,              \* argument orcid of check_author
    stage,              \* position in the lookup: the request made next, or "returned"
    lookup_result,      \* local result of the lookup, the dict it returns
    response,           \* the response to the last request made
    requests_made,      \* the requests attempted so far, in order
    lookup_exc,         \* "none", or the exception that left the lookup
    check_p_args,       \* the arguments of a call of check_p_value
    computed_p,         \* local computed_p, in units of 1/PDen
    consistent,         \* local consistent: "None", "False" or "True"
    decision_error,     \* local decision_error: "None", "False" or "True"
    p_stage,            \* position in check_p_value
    p_ret,              \* << >>, then << the dict check_p_value returned >>
    power_args,         \* the arguments of a call of achieved_power
    n_per_group,        \* local n_per_group after lines 218-219
    d_cohen,            \* local d_cohen: "unset" or "set"
    pwr,                \* local pwr, in units of 1/PwrDen
    adequate,           \* local adequate
    interpretation,     \* local interpretation
    power_stage,        \* position in achieved_power
    power_ret           \* << >>, then << the dict achieved_power returned >>

\* the state of a call of a_grimmer
grimmerVars == << n, mean, sd, decimals_mean, decimals_sd, data, pc, realsum,
                  possible_integers, matches_sd, ret, exc >>
\* the state of a call of _round_half_down and _round_half_up
roundVars == << arg_number, arg_decimals, half_down, half_up >>
\* the state of a call of check_journal, check_retraction or check_author
screenVars == << fn, doi, orcid, stage, lookup_result, response, requests_made,
                 lookup_exc >>
\* the state of a call of check_p_value
pVars == << check_p_args, computed_p, consistent, decision_error, p_stage, p_ret >>
\* the state of a call of achieved_power
powerVars == << power_args, n_per_group, d_cohen, pwr, adequate, interpretation,
                power_stage, power_ret >>
\* the state outside a call of a_grimmer
others == << roundVars, screenVars, pVars, powerVars >>
\* the state outside a call of the rounding helpers
notRound == << grimmerVars, screenVars, pVars, powerVars >>
\* the state outside a call of a Tier-0 lookup
notScreen == << grimmerVars, roundVars, pVars, powerVars >>
\* the state outside a call of check_p_value
notP == << grimmerVars, roundVars, screenVars, powerVars >>
\* the state outside a call of achieved_power
notPower == << grimmerVars, roundVars, screenVars, pVars >>

vars == << grimmerVars, others >>

---------------------------------------------------------------------------
(* Bounds of the model *)

\* reported inputs: n ranges over -NegN .. MaxN
NegN == 1
MaxN == 4
\* reported inputs: |mean| <= MaxMean and sd <= MaxSD (in units, not scaled)
MaxMean == 2
MaxSD == 2
\* samples: 2 .. MaxDataN integers, each in -MaxDataVal .. MaxDataVal
MaxDataN == 4
MaxDataVal == 2
\* rounding helpers: numbers k / 10^e with |k| <= MaxRoundNum, and square roots
\* of a / 400 with a <= MaxRoundNum * MaxRoundNum
MaxRoundNum == 26

---------------------------------------------------------------------------
(* Exact arithmetic *)

Abs(x) == IF x < 0 THEN -x ELSE x

\* 10 ** d
RECURSIVE Pow10(_)
Pow10(d) == IF d = 0 THEN 1 ELSE 10 * Pow10(d - 1)

\* math.floor(a / b) and math.ceil(a / b) of the exact quotient, b # 0
FloorDiv(a, b) == IF b > 0 THEN a \div b ELSE (-a) \div (-b)
CeilDiv(a, b) == -FloorDiv(-a, b)

\* the number a / b, b # 0, with a positive denominator
Rat(a, b) == IF b > 0 THEN [num |-> a, den |-> b, root |-> 1, eps |-> 0]
                      ELSE [num |-> -a, den |-> -b, root |-> 1, eps |-> 0]

\* the float a / b + e * 10^-13, b > 0: when e # 0, a number next to a / b
Near(a, b, e) == [num |-> a, den |-> b, root |-> 1, eps |-> e]

\* math.sqrt(q) of a number q >= 0
Sqrt(q) == [num |-> q.num, den |-> q.den, root |-> 2, eps |-> 0]

\* the largest integer f >= 0 with f * f <= a / b   (a >= 0, b > 0)
\* found by bisection: lo * lo <= q < hi * hi throughout
RECURSIVE SqrtBetween(_, _, _)
SqrtBetween(lo, hi, q) ==
    IF hi - lo <= 1 THEN lo
    ELSE LET mid == (lo + hi) \div 2
         IN  IF mid * mid <= q THEN SqrtBetween(mid, hi, q) ELSE SqrtBetween(lo, mid, q)
ISqrtFloor(a, b) ==
    LET q == a \div b
    IN  SqrtBetween(0, IF q < 46340 THEN q + 1 ELSE 46341, q)

\* a variant of round(a / b) that breaks ties upwards: math.floor(a / b + 0.5)
MutRoundHalfEven(a, b) == FloorDiv(2 * a + b, 2 * b)

\* Python's round(a / b) to an integer: nearest, ties to the even integer
RoundHalfEven(a, b) ==
    LET q == FloorDiv(a, b)
        r == IF b > 0 THEN a - q * b ELSE (-a) - q * (-b)
        d == Abs(b)
    IN  IF 2 * r < d THEN q
        ELSE IF 2 * r > d THEN q + 1
        ELSE IF q % 2 = 0 THEN q ELSE q + 1


---------------------------------------------------------------------------
(* Rounding helpers, grimmer.py lines 46-61.  A result is returned in     *)
(* units of 10^-decimals: the code's final "/ factor" is the unit.         *)

\* the absolute tolerance 1e-9 of every floating-point comparison, as 1 / TolInv
TolInv == 1000000000
\* the same tolerance in the unit of eps: 1e-9 = EpsPerTol * 10^-13
EpsPerTol == 10000

\* math.floor(number * factor)
FloorTimes(number, factor) ==
    IF number.root = 1
    THEN LET f == FloorDiv(number.num * factor, number.den)
         IN  IF number.eps < 0 /\ f * number.den = number.num * factor THEN f - 1 ELSE f
    ELSE ISqrtFloor(number.num * factor * factor, number.den)

\* a variant of math.ceil that rounds downwards as math.floor does
MutCeilTimes(number, factor) == FloorTimes(number, factor)

\* math.ceil(number * factor)
CeilTimes(number, factor) ==
    IF number.root = 1
    THEN LET c == CeilDiv(number.num * factor, number.den)
         IN  IF number.eps > 0 /\ c * number.den = number.num * factor THEN c + 1 ELSE c
    ELSE LET f == ISqrtFloor(number.num * factor * factor, number.den)
         IN  IF f * f * number.den = number.num * factor * factor THEN f ELSE f + 1

\* a variant of the halfway test that compares num/den alone, without the offset
MutIsFive(number, factor) ==
    IF number.root = 1
    THEN (2 * number.num * factor) % (2 * number.den) = number.den
    ELSE LET fl == FloorTimes(number, factor)
         IN  (2 * fl + 1) * (2 * fl + 1) * number.den = 4 * number.num * factor * factor

\* is_five = number * factor * 10 - math.floor(number * factor) * 10, and the
\* test abs(is_five - 5) < 1e-9.  For a rational num/den the test is
\* |10 * rem - 5 * den| / den < 1 / TolInv; with an offset eps (far smaller than
\* 1 / den) it is: num/den * factor is exactly halfway and 10 * factor * |eps|
\* is below the tolerance.  For a square root the distance to the halfway
\* point is 0 or more than 1e-9 for every radicand whose terms fit in 32 bits,
\* so the test is the exact one.
IsFive(number, factor) ==
    LET fl == IF number.root = 1 THEN FloorDiv(number.num * factor, number.den)
                                 ELSE FloorTimes(number, factor)
    IN  IF number.root = 1
        THEN /\ Abs(10 * (number.num * factor - fl * number.den) - 5 * number.den)
                    < CeilDiv(number.den, TolInv)
             /\ 10 * factor * Abs(number.eps) < EpsPerTol
        ELSE (2 * fl + 1) * (2 * fl + 1) * number.den
                 = 4 * number.num * factor * factor

\* Python's round(number, decimals): nearest multiple of 10^-decimals, ties to even
Round(number, decimals) ==
    LET factor == Pow10(decimals)
        fl == FloorTimes(number, factor)
    IN  IF number.root = 1
        THEN IF number.eps # 0 /\ 2 * (number.num * factor - fl * number.den) = number.den
             THEN (IF number.eps > 0 THEN fl + 1 ELSE fl)
             ELSE RoundHalfEven(number.num * factor, number.den)
        ELSE LET lhs == (2 * fl + 1) * (2 * fl + 1) * number.den
                 rhs == 4 * number.num * factor * factor
             IN  IF rhs < lhs THEN fl
                 ELSE IF rhs > lhs THEN fl + 1
                 ELSE IF fl % 2 = 0 THEN fl ELSE fl + 1

\* a variant of _round_half_down that truncates a halfway value towards zero
Mut_round_half_down(number, decimals) ==
    LET factor == Pow10(decimals)
    IN  IF IsFive(number, factor)
        THEN (IF number.num < 0 THEN CeilTimes(number, factor)
                                ELSE FloorTimes(number, factor))
        ELSE Round(number, decimals)

_round_half_down(number, decimals) ==
    LET factor == Pow10(decimals)
    IN  IF IsFive(number, factor)
        THEN FloorTimes(number, factor)
        ELSE Round(number, decimals)

\* a variant of _round_half_up that leaves the halfway case to round()
Mut_round_half_up(number, decimals) == Round(number, decimals)

_round_half_up(number, decimals) ==
    LET factor == Pow10(decimals)
    IN  IF IsFive(number, factor)
        THEN CeilTimes(number, factor)
        ELSE Round(number, decimals)

\* abs(a - b) < 1e-9 for a and b in units of 10^-decimals
Close(a, b, decimals) == Abs(a - b) < CeilDiv(Pow10(decimals), TolInv)

---------------------------------------------------------------------------
(* The locals of a_grimmer, as functions of the arguments *)

\* a variant of the guard that compares n with 10 ** (decimals_mean + 1)
MutTooLarge == n > 10 * Pow10(decimals_mean)

\* line 110: n > 10 ** decimals_mean
TooLarge == n > Pow10(decimals_mean)

\* a variant of realsum that truncates downwards: math.floor(mean * n)
MutRealSum == FloorDiv(mean * n, Pow10(decimals_mean))

\* lines 119-120: realsum = round(mean * n)
RealSum == RoundHalfEven(mean * n, Pow10(decimals_mean))

\* line 121: realmean = realsum / n   (n # 0)
realmean == Rat(realsum, n)

\* lines 123-125
consistency_down == Close(_round_half_down(realmean, decimals_mean), mean, decimals_mean)
\* a variant of the second GRIM test that rounds half down as the first does
MutConsistencyUp == Close(_round_half_down(realmean, decimals_mean), mean, decimals_mean)
consistency_up == Close(_round_half_up(realmean, decimals_mean), mean, decimals_mean)
\* a variant of the GRIM test that lets every mean pass
MutGrimPassed == TRUE
grim_passed == consistency_down \/ consistency_up

\* lines 136-138, in units of 10^-decimals_sd: half_unit = 5.0 / 10 ** decimals_sd
half_unit == 5
\* a variant of lsigma without the clamp max(0.0, ...)
MutLsigma == sd - half_unit
lsigma == IF sd < half_unit THEN 0 ELSE sd - half_unit
\* a variant of usigma without the half unit above the reported sd
MutUsigma == sd
usigma == sd + half_unit

\* lines 141-142, the double n * realmean ** 2 for realmean = r / n.  Where the
\* exact value r^2 / n is an integer and r / n is no binary fraction, the double
\* can lie next to it: for n = 9 it is above r^2 / 9 for |r| in RoundedUp and
\* below it for |r| in RoundedDown (IEEE 754 binary64, |r| <= 60; e.g.
\* 9 * (30 / 9) ** 2 = 100.00000000000001).  For the other sample sizes of the
\* model r^2 / n is an integer only when r / n is a binary fraction, and an
\* error below 10^-13 moves no bound across an integer.
RoundedUp == {15, 21, 30, 42, 60}
RoundedDown == {33, 39, 57}
SquareError(r) ==
    IF n = 9 /\ Abs(r) \in RoundedUp THEN 1
    ELSE IF n = 9 /\ Abs(r) \in RoundedDown THEN -1
    ELSE 0

\* a variant of the bound without the factor n: (n - 1) * sigma ** 2 + realmean ** 2
MutSumSqBound(sigma) ==
    LET p == Pow10(decimals_sd)
    IN  Rat((n - 1) * sigma * sigma * n * n + realsum * realsum * p * p, p * p * n * n)

\* lines 141-142: (n - 1) * sigma ** 2 + n * realmean ** 2, sigma in scaled units
SumSqBound(sigma) ==
    LET p == Pow10(decimals_sd)
    IN  [Rat((n - 1) * sigma * sigma * n + realsum * realsum * p * p, p * p * n)
            EXCEPT !.eps = SquareError(realsum)]
lower_bound == SumSqBound(lsigma)
upper_bound == SumSqBound(usigma)

\* a variant of the candidate list that starts above the lower end: range(lo + 1, hi + 1)
MutRangeList(lo, hi) == [k \in 1 .. (IF hi > lo THEN hi - lo ELSE 0) |-> lo + k]

\* list(range(lo, hi + 1))
RangeList(lo, hi) == [k \in 1 .. (IF hi >= lo THEN hi - lo + 1 ELSE 0) |-> lo + k - 1]

\* a variant of the variance with the divisor n: (x - n * realmean ** 2) / n
MutVar(x) == Rat(x * n - realsum * realsum, n * n)

\* line 159: var = (x - n * realmean ** 2) / (n - 1)   (n # 1)
Var(x) == Rat(x * n - realsum * realsum, n * (n - 1))

\* lines 160-166: the value appended to matches_sd for candidate x
MatchesSd(x) ==
    IF Var(x).num < 0 THEN FALSE
    ELSE LET pred_sd == Sqrt(Var(x))
             down == _round_half_down(pred_sd, decimals_sd)
             up == _round_half_up(pred_sd, decimals_sd)
         IN  Close(down, sd, decimals_sd) \/ Close(up, sd, decimals_sd)

\* a variant of the parity with a remainder that takes the sign of realsum
MutOddness == IF realsum < 0 THEN -((-realsum) % 2) ELSE realsum % 2

\* line 177
oddness == realsum % 2

\* lines 178-179
third_test == [k \in 1 .. Len(possible_integers) |->
                  matches_sd[k] /\ possible_integers[k] % 2 = oddness]

\* any(list)
AnyTrue(list) == \E k \in 1 .. Len(list) : list[k]

\* the returned dict; a flag is "True", "False" or "None"
Verdict(result, grim, grimmer, rmean) ==
    [result |-> result, grim_passed |-> grim, grimmer_passed |-> grimmer,
     reconstructed_mean |-> rmean]

---------------------------------------------------------------------------
(* The steps of a_grimmer *)

\* a variant of the guard that also fires when n equals 10 ** decimals_mean
MutGuard ==
    /\ UNCHANGED others
    /\ pc = "guard"
    /\ IF n >= Pow10(decimals_mean)
       THEN /\ ret' = << Verdict("GRIM inapplicable (n too large for reported precision)",
                                 "None", "None", Rat(mean, Pow10(decimals_mean))) >>
            /\ pc' = "done"
       ELSE /\ ret' = ret
            /\ pc' = "grim"
    /\ UNCHANGED << n, mean, sd, decimals_mean, decimals_sd, data, realsum,
                    possible_integers, matches_sd, exc >>

\* lines 110-116
Guard ==
    /\ UNCHANGED others
    /\ pc = "guard"
    /\ IF TooLarge
       THEN /\ ret' = << Verdict("GRIM inapplicable (n too large for reported precision)",
                                 "None", "None", Rat(mean, Pow10(decimals_mean))) >>
            /\ pc' = "done"
       ELSE /\ ret' = ret
            /\ pc' = "grim"
    /\ UNCHANGED << n, mean, sd, decimals_mean, decimals_sd, data, realsum,
                    possible_integers, matches_sd, exc >>

\* a variant of the GRIM step that goes on to the GRIMMER stages when GRIM fails
MutGrim ==
    /\ UNCHANGED others
    /\ pc = "grim"
    /\ UNCHANGED << n, mean, sd, decimals_mean, decimals_sd, data,
                    possible_integers, matches_sd, ret >>
    /\ realsum' = RealSum
    /\ IF n = 0
       THEN exc' = "ZeroDivisionError" /\ pc' = "raised"
       ELSE exc' = exc /\ pc' = "bounds"

\* lines 119-133
Grim ==
    /\ UNCHANGED others
    /\ pc = "grim"
    /\ UNCHANGED << n, mean, sd, decimals_mean, decimals_sd, data,
                    possible_integers, matches_sd >>
    /\ realsum' = RealSum
    /\ IF n = 0
       THEN /\ exc' = "ZeroDivisionError"
            /\ pc' = "raised"
            /\ ret' = ret
       ELSE /\ exc' = exc
            /\ IF grim_passed'
               THEN /\ pc' = "bounds"
                    /\ ret' = ret
               ELSE /\ pc' = "done"
                    /\ ret' = << Verdict("GRIM inconsistent", "False", "None", realmean') >>

\* a variant of the bounds step whose early return leaves grimmer_passed None
MutBounds ==
    /\ UNCHANGED others
    /\ pc = "bounds"
    /\ IF CeilTimes(lower_bound, 1) > FloorTimes(upper_bound, 1)
       THEN /\ ret' = << Verdict("GRIMMER inconsistent", "True", "None", realmean) >>
            /\ pc' = "done"
            /\ possible_integers' = possible_integers
       ELSE /\ possible_integers' =
                   RangeList(CeilTimes(lower_bound, 1), FloorTimes(upper_bound, 1))
            /\ pc' = "loop"
            /\ ret' = ret
    /\ UNCHANGED << n, mean, sd, decimals_mean, decimals_sd, data, realsum,
                    matches_sd, exc >>

\* lines 136-154
Bounds ==
    /\ UNCHANGED others
    /\ pc = "bounds"
    /\ IF CeilTimes(lower_bound, 1) > FloorTimes(upper_bound, 1)
       THEN /\ ret' = << Verdict("GRIMMER inconsistent", "True", "False", realmean) >>
            /\ pc' = "done"
            /\ possible_integers' = possible_integers
       ELSE /\ possible_integers' =
                   RangeList(CeilTimes(lower_bound, 1), FloorTimes(upper_bound, 1))
            /\ pc' = "loop"
            /\ ret' = ret
    /\ UNCHANGED << n, mean, sd, decimals_mean, decimals_sd, data, realsum,
                    matches_sd, exc >>

\* lines 158-166, one iteration
Loop ==
    /\ UNCHANGED others
    /\ pc = "loop"
    /\ Len(matches_sd) < Len(possible_integers)
    /\ LET x == possible_integers[Len(matches_sd) + 1]
       IN  IF n = 1
           THEN /\ exc' = "ZeroDivisionError"
                /\ pc' = "raised"
                /\ matches_sd' = matches_sd
           ELSE /\ matches_sd' = Append(matches_sd, MatchesSd(x))
                /\ pc' = pc
                /\ exc' = exc
    /\ UNCHANGED << n, mean, sd, decimals_mean, decimals_sd, data, realsum,
                    possible_integers, ret >>

\* a variant of the SD gate that leaves the loop before its last candidate
MutSdGate ==
    /\ UNCHANGED others
    /\ pc = "loop"
    /\ Len(matches_sd) >= Len(possible_integers) - 1
    /\ IF ~AnyTrue(matches_sd)
       THEN /\ ret' = << Verdict("GRIMMER inconsistent", "True", "False", realmean) >>
            /\ pc' = "done"
       ELSE /\ ret' = ret
            /\ pc' = "parity"
    /\ UNCHANGED << n, mean, sd, decimals_mean, decimals_sd, data, realsum,
                    possible_integers, matches_sd, exc >>

\* lines 168-174
SdGate ==
    /\ UNCHANGED others
    /\ pc = "loop"
    /\ Len(matches_sd) = Len(possible_integers)
    /\ IF ~AnyTrue(matches_sd)
       THEN /\ ret' = << Verdict("GRIMMER inconsistent", "True", "False", realmean) >>
            /\ pc' = "done"
       ELSE /\ ret' = ret
            /\ pc' = "parity"
    /\ UNCHANGED << n, mean, sd, decimals_mean, decimals_sd, data, realsum,
                    possible_integers, matches_sd, exc >>

\* a variant of the last step that skips the parity test
MutParity ==
    /\ UNCHANGED others
    /\ pc = "parity"
    /\ IF ~AnyTrue(matches_sd)
       THEN ret' = << Verdict("GRIMMER inconsistent", "True", "False", realmean) >>
       ELSE ret' = << Verdict("consistent", "True", "True", realmean) >>
    /\ pc' = "done"
    /\ UNCHANGED << n, mean, sd, decimals_mean, decimals_sd, data, realsum,
                    possible_integers, matches_sd, exc >>

\* lines 177-194
Parity ==
    /\ UNCHANGED others
    /\ pc = "parity"
    /\ IF ~AnyTrue(third_test)
       THEN ret' = << Verdict("GRIMMER inconsistent", "True", "False", realmean) >>
       ELSE ret' = << Verdict("consistent", "True", "True", realmean) >>
    /\ pc' = "done"
    /\ UNCHANGED << n, mean, sd, decimals_mean, decimals_sd, data, realsum,
                    possible_integers, matches_sd, exc >>

---------------------------------------------------------------------------
(* The calls the model makes *)

Decimals == {0, 1, 2}

\* the inputs of the tests, the docstring and the examples (decimals 2, 2):
\* test_grimmer.py lines 13, 18, 27, 32; grimmer.py line 101;
\* examples/grim_check.py line 77
NamedCalls ==
    { [n |-> c[1], mean |-> c[2], sd |-> c[3], decimals_mean |-> 2, decimals_sd |-> 2] :
        c \in { <<18, 344, 247>>, <<10, 345, 150>>, <<10, 340, 207>>,
                <<1000, 344, 247>>, <<20, 345, 182>>, <<10, 320, 148>> } }

\* calls whose reported sd is far larger than the mean (decimals 2, 2)
LargeSdCalls ==
    { [n |-> c[1], mean |-> c[2], sd |-> c[3], decimals_mean |-> 2, decimals_sd |-> 2] :
        c \in { <<10, 320, 1200>>, <<2, 150, 10000>>, <<2, 150, 5000>> } }

\* the two ways of reporting the mean 27/8 = 3.375 (decimals 2, 2)
HalfwayCalls ==
    { [n |-> 8, mean |-> m, sd |-> 150, decimals_mean |-> 2, decimals_sd |-> 2] :
        m \in {337, 338} }

\* calls of nine values with sd 0.0 whose sum of squares is at least
\* realsum^2 / 9, an integer: means 0.3, 3.3, -3.3 and 3.7 (decimals 1, 1)
BoundaryCalls ==
    { [n |-> 9, mean |-> m, sd |-> 0, decimals_mean |-> 1, decimals_sd |-> 1] :
        m \in {3, 33, -33, 37} }

\* calls with the largest sample size the guard lets through, n = 10 for one
\* decimal of the mean, with sd 0.0 or 1.0 (decimals 1, 1)
PrecisionCalls ==
    { [n |-> 10, mean |-> m, sd |-> s, decimals_mean |-> 1, decimals_sd |-> 1] :
        m \in (-10 * MaxMean) .. (10 * MaxMean), s \in {0, 10} }

\* calls on a grid of reported values with 0 or 1 decimals
GridCalls ==
    { [n |-> c[1], mean |-> c[2], sd |-> c[3], decimals_mean |-> c[4], decimals_sd |-> c[5]] :
        c \in { g \in ((-NegN) .. MaxN) \X ((-10 * MaxMean) .. (10 * MaxMean))
                       \X (0 .. 10 * MaxSD) \X {0, 1} \X {0, 1} :
                  /\ Abs(g[2]) <= MaxMean * Pow10(g[4])
                  /\ g[3] <= MaxSD * Pow10(g[5]) } }

\* the integer samples: non-decreasing sequences of 2 .. MaxDataN values
Samples ==
    UNION { { s \in [1 .. k -> (-MaxDataVal) .. MaxDataVal] :
                \A i \in 1 .. k - 1 : s[i] <= s[i + 1] } : k \in 2 .. MaxDataN }

RECURSIVE SumOf(_)
SumOf(s) == IF s = << >> THEN 0 ELSE Head(s) + SumOf(Tail(s))
RECURSIVE SumSqOf(_)
SumSqOf(s) == IF s = << >> THEN 0 ELSE Head(s) * Head(s) + SumSqOf(Tail(s))

\* the values with d decimals (in units of 10^-d) that the exact mean of sample s
\* rounds to, by the half-down or the half-up rule: |k / 10^d - sum / len| <= 1 / (2 * 10^d)
ReportedMeans(s, d) ==
    LET c == SumOf(s) * Pow10(d)
        k0 == FloorDiv(c, Len(s))
    IN  { k \in {k0, k0 + 1} : 2 * Abs(k * Len(s) - c) <= Len(s) }

\* the same for the exact sample standard deviation (divisor len - 1):
\* variance = (len * sumsq - sum^2) / (len * (len - 1)), and k >= 0 is a rounding
\* of its square root when (k - 1/2)^2 <= variance * 10^(2d) <= (k + 1/2)^2
ReportedSds(s, d) ==
    LET a == 4 * (Len(s) * SumSqOf(s) - SumOf(s) * SumOf(s)) * Pow10(d) * Pow10(d)
        b == Len(s) * (Len(s) - 1)
        k0 == ISqrtFloor(a, 4 * b)
    IN  { k \in {k0, k0 + 1} :
            /\ a <= (2 * k + 1) * (2 * k + 1) * b
            /\ k = 0 \/ (2 * k - 1) * (2 * k - 1) * b <= a }

\* no Tier-0 lookup is under way
ScreenIdle ==
    /\ fn = "none" /\ doi = "None" /\ orcid = "None" /\ stage = "idle"
    /\ lookup_result = << >> /\ response = [status |-> "none"]
    /\ requests_made = << >> /\ lookup_exc = "none"

\* no call of check_p_value is under way
PIdle ==
    /\ check_p_args = << >> /\ computed_p = 0 /\ consistent = "None"
    /\ decision_error = "None" /\ p_stage = "idle" /\ p_ret = << >>

\* no call of achieved_power is under way
PowerIdle ==
    /\ power_args = << >> /\ n_per_group = 0 /\ d_cohen = "unset" /\ pwr = 0
    /\ adequate = FALSE /\ interpretation = "" /\ power_stage = "idle"
    /\ power_ret = << >>

\* no call of the rounding helpers is under way
RoundIdle ==
    arg_number = Rat(0, 1) /\ arg_decimals = 0 /\ half_down = << >> /\ half_up = << >>

Start(call, sample) ==
    /\ n = call.n
    /\ mean = call.mean
    /\ sd = call.sd
    /\ decimals_mean = call.decimals_mean
    /\ decimals_sd = call.decimals_sd
    /\ data = sample
    /\ pc = "guard"
    /\ realsum = 0
    /\ possible_integers = << >>
    /\ matches_sd = << >>
    /\ ret = << >>
    /\ exc = "none"
    /\ RoundIdle
    /\ ScreenIdle
    /\ PIdle
    /\ PowerIdle

\* a call with reported values
InitReported ==
    \E call \in NamedCalls \cup LargeSdCalls \cup HalfwayCalls \cup BoundaryCalls
                 \cup PrecisionCalls \cup GridCalls :
        Start(call, << >>)

\* a call with the rounded statistics of an integer sample
InitSample ==
    \E s \in Samples, dm \in Decimals, ds \in Decimals :
        \E m \in ReportedMeans(s, dm), d \in ReportedSds(s, ds) :
            Start([n |-> Len(s), mean |-> m, sd |-> d,
                   decimals_mean |-> dm, decimals_sd |-> ds], s)

Init == InitReported \/ InitSample

Next == Guard \/ Grim \/ Bounds \/ Loop \/ SdGate \/ Parity

Spec == Init /\ [][Next]_vars

\* the calls followed to their end: the named ones and the grid of non-negative
\* means with one decimal
InitFair ==
    \E call \in NamedCalls \cup HalfwayCalls \cup BoundaryCalls
                 \cup { c \in GridCalls : /\ c.decimals_mean = 1 /\ c.decimals_sd = 1
                                          /\ c.mean >= 0 } :
        Start(call, << >>)

\* a call that has started runs on: the interpreter executes the next statement
\* of a_grimmer as long as there is one
SpecFair == InitFair /\ [][Next]_vars /\ WF_vars(Next)

---------------------------------------------------------------------------
(* Calls of the rounding helpers on their own, grimmer.py lines 46-61 *)

\* an offset beyond the 1e-9 tolerance for every decimals of the model (5e-9)
EpsFar == 50000

\* the numbers rounded: decimal fractions, the floats next to them (one unit
\* of eps away, and EpsFar away), and square roots
RoundNumbers ==
    { Near(k, d, e) : k \in (-MaxRoundNum) .. MaxRoundNum, d \in {1, 10, 100, 1000},
                      e \in {-EpsFar, -1, 0, 1, EpsFar} }
    \cup { Sqrt(Rat(a, 400)) : a \in 0 .. MaxRoundNum * MaxRoundNum }

\* no call of a_grimmer is under way
GrimmerIdle ==
    /\ n = 1 /\ mean = 0 /\ sd = 0 /\ decimals_mean = 0 /\ decimals_sd = 0
    /\ data = << >> /\ pc = "idle" /\ realsum = 0
    /\ possible_integers = << >> /\ matches_sd = << >>
    /\ ret = << >> /\ exc = "none"

InitRound ==
    /\ GrimmerIdle
    /\ ScreenIdle
    /\ PIdle
    /\ PowerIdle
    /\ arg_number \in RoundNumbers
    /\ arg_decimals \in Decimals
    /\ half_down = << >>
    /\ half_up = << >>

\* the call _round_half_down(number, decimals)
RoundHalfDownCall ==
    /\ half_down = << >>
    /\ half_down' = << _round_half_down(arg_number, arg_decimals) >>
    /\ UNCHANGED << notRound, arg_number, arg_decimals, half_up >>

\* the call _round_half_up(number, decimals)
RoundHalfUpCall ==
    /\ half_up = << >>
    /\ half_up' = << _round_half_up(arg_number, arg_decimals) >>
    /\ UNCHANGED << notRound, arg_number, arg_decimals, half_down >>

NextRound == RoundHalfDownCall \/ RoundHalfUpCall

SpecRound == InitRound /\ [][NextRound]_vars

---------------------------------------------------------------------------
(* The Tier-0 lookups, paper_screening.py.  A response is a record: its    *)
(* status is "network_error" (requests.get raises), "http_error" (a 4xx or *)
(* 5xx status code), "bad_json" (resp.json() raises) or "ok", and an ok    *)
(* response carries the parts of its JSON document that the code reads.    *)
(* None is the string "None"; a part whose value is "not_a_dict" or "bad"  *)
(* is a JSON value of the wrong type, on which .get raises.                *)

\* identifier lists of a DOAJ record have up to MaxIdents entries
MaxIdents == 2
\* update-to lists of a CrossRef record have up to MaxUpdates entries
MaxUpdates == 2
\* a CrossRef filter query returns up to MaxItems items
MaxItems == 2
\* an OpenAlex author record has up to MaxTopics topics
MaxTopics == 2

\* the sequences over S of length 0 .. k
SeqUpTo(S, k) == UNION { [1 .. j -> S] : j \in 0 .. k }

\* a count that is null, or absent, in a JSON document
NullCount == -1

\* the responses without a document
Failures == { [status |-> x] : x \in {"network_error", "http_error", "bad_json"} }

\* lines 62-69
JournalDefaults ==
    [in_doaj |-> FALSE, publisher |-> "None", works_count |-> 0,
     cited_by_count |-> 0, is_oa |-> FALSE, issn |-> "None"]

\* the responses of https://doaj.org/api/search/journals/
DoajResponses ==
    Failures
    \cup { [status |-> "ok", total |-> t, results |-> r, publisher |-> "absent",
            identifier |-> << >>] :
             t \in {"not_a_dict", "absent", "zero", "not_a_number", "positive"},
             r \in {"absent", "empty", "bad"} }
    \cup { [status |-> "ok", total |-> t, results |-> "entry", publisher |-> pb,
            identifier |-> ids] :
             t \in {"zero", "positive"},
             pb \in {"absent", "not_a_dict", "no_name", "Dove Press"},
             ids \in SeqUpTo({"pissn", "eissn", "doi", "bad"}, MaxIdents) }

\* lines 85-88: the id of the first identifier of type pissn or eissn; "none"
\* when the loop ends without one, "raised" when it meets a malformed entry
RECURSIVE FirstIssn(_)
FirstIssn(ids) ==
    IF ids = << >> THEN "none"
    ELSE IF Head(ids) = "bad" THEN "raised"
    ELSE IF Head(ids) = "pissn" THEN "1178-7007"
    ELSE IF Head(ids) = "eissn" THEN "1178-7015"
    ELSE FirstIssn(Tail(ids))

\* lines 72-90: result after the DOAJ block; an exception ends the block
Doaj(result, resp) ==
    IF resp.status # "ok" THEN result
    ELSE IF resp.total # "positive" THEN result
    ELSE LET r1 == [result EXCEPT !.in_doaj = TRUE]
         IN  IF resp.results # "entry" \/ resp.publisher = "not_a_dict" THEN r1
             ELSE LET r2 == [r1 EXCEPT !.publisher =
                                 IF resp.publisher = "Dove Press" THEN "Dove Press"
                                                                  ELSE "None"]
                  IN  IF FirstIssn(resp.identifier) \in {"none", "raised"} THEN r2
                      ELSE [r2 EXCEPT !.issn = FirstIssn(resp.identifier)]

\* the responses of https://api.openalex.org/sources?search=
SourcesResponses ==
    Failures
    \cup { [status |-> "ok", results |-> r, works_count |-> NullCount,
            cited_by_count |-> NullCount, is_oa |-> "None", issn_l |-> "None",
            host_organization_name |-> "None"] :
             r \in {"not_a_dict", "absent", "empty", "bad"} }
    \cup { [status |-> "ok", results |-> "entry", works_count |-> w,
            cited_by_count |-> c, is_oa |-> o, issn_l |-> i,
            host_organization_name |-> h] :
             w \in {NullCount, 0, 4521}, c \in {NullCount, 98034},
             o \in {"None", "False", "True"}, i \in {"None", "0028-0836"},
             h \in {"None", "Springer Nature"} }

\* x or 0, for a count x that may be None
OrZero(x) == IF x = NullCount THEN 0 ELSE x

\* lines 93-112: result after the OpenAlex block
Sources(result, resp) ==
    IF resp.status # "ok" \/ resp.results # "entry" THEN result
    ELSE [result EXCEPT
             !.works_count = OrZero(resp.works_count),
             !.cited_by_count = OrZero(resp.cited_by_count),
             !.is_oa = (resp.is_oa = "True"),
             !.issn = IF result.issn = "None" THEN resp.issn_l ELSE result.issn,
             !.publisher = IF result.publisher = "None"
                           THEN resp.host_organization_name ELSE result.publisher]

\* the values of the argument doi
Dois == {"10.2147/DMSO.S27665", " 10.2147/dmso.s27665 "}

\* str.strip() on the strings of the model
Strip(x) == IF x = " 10.2147/dmso.s27665 " THEN "10.2147/dmso.s27665" ELSE x

\* str.lower() on the strings of the model, with (x or "") for None
Lower(x) ==
    CASE x = "None" -> ""
      [] x = "Retraction" -> "retraction"
      [] x = "Correction" -> "correction"
      [] x = "10.2147/DMSO.S27665" -> "10.2147/dmso.s27665"
      [] OTHER -> x

\* line 144: doi.strip().lower()
DoiClean(d) == Lower(Strip(d))

\* line 150: the URL built from _doi_clean.replace('/', '-').upper()
PubPeerUrl(doi_clean) ==
    IF doi_clean = "10.2147/dmso.s27665"
    THEN "https://pubpeer.com/publications/10.2147-DMSO.S27665"
    ELSE "https://pubpeer.com/publications/"

\* lines 146-151
RetractionDefaults(d) ==
    [retracted |-> FALSE, corrections |-> << >>, pubpeer_comments |-> 0,
     pubpeer_url |-> PubPeerUrl(DoiClean(d))]

\* an update-to entry that is not a JSON object
BadUpd == [type |-> "bad", DOI |-> "bad"]

\* the update-to entries of a CrossRef work record
WorkUpds ==
    { [type |-> "Retraction", DOI |-> "None"],
      [type |-> "correction", DOI |-> "10.2147/dmso.s27665.c1"],
      [type |-> "correction", DOI |-> "None"],
      [type |-> "erratum", DOI |-> "None"],
      [type |-> "addendum", DOI |-> "None"],
      [type |-> "None", DOI |-> "None"],
      BadUpd }

\* the responses of https://api.crossref.org/works/<doi>
WorkResponses ==
    Failures
    \cup { [status |-> "ok", message |-> m, updates |-> << >>] :
             m \in {"not_a_dict", "absent"} }
    \cup { [status |-> "ok", message |-> "dict", updates |-> u] :
             u \in SeqUpTo(WorkUpds, MaxUpdates) }

\* lines 159-164: the loop over update-to; a malformed entry raises and ends it
RECURSIVE WorkLoop(_, _)
WorkLoop(result, upds) ==
    IF upds = << >> THEN result
    ELSE IF Head(upds) = BadUpd THEN result
    ELSE LET upd_type == Lower(Head(upds).type)
             upd_doi == Head(upds).DOI
         IN  WorkLoop(
                 IF upd_type = "retraction" THEN [result EXCEPT !.retracted = TRUE]
                 ELSE IF upd_type \in {"correction", "erratum"}
                 THEN [result EXCEPT !.corrections =
                          Append(@, IF upd_doi # "None" THEN upd_doi ELSE upd_type)]
                 ELSE result,
                 Tail(upds))

\* lines 154-166: result after the first CrossRef block
Work(result, resp) ==
    IF resp.status # "ok" \/ resp.message # "dict" THEN result
    ELSE WorkLoop(result, resp.updates)

\* an item of a filter query that is not a JSON object
BadItem == [DOI |-> "bad", updates |-> << >>]

\* the items of a filter query: notices with at most one update-to entry
FilterItems ==
    { [DOI |-> nd, updates |-> u] :
        nd \in {"None", "10.2147/dmso.s27665.r1"},
        u \in SeqUpTo({ [type |-> ty, DOI |-> ud] :
                           ty \in {"retraction", "Correction"},
                           ud \in {"10.2147/DMSO.S27665", "10.1000/other"} }
                      \cup {BadUpd}, 1) }
    \cup {BadItem}

\* the responses of https://api.crossref.org/works?filter=updates:<doi>
FilterResponses ==
    Failures
    \cup { [status |-> "ok", message |-> m, items |-> << >>] :
             m \in {"not_a_dict", "absent"} }
    \cup { [status |-> "ok", message |-> "dict", items |-> i] :
             i \in SeqUpTo(FilterItems, MaxItems) }

\* lines 179-188 for one item with one update-to entry upd
FilterUpd(result, item, upd, doi_clean) ==
    IF Lower(upd.DOI) # doi_clean THEN result
    ELSE IF Lower(upd.type) = "retraction" THEN [result EXCEPT !.retracted = TRUE]
    ELSE IF Lower(upd.type) \in {"correction", "erratum"}
    THEN IF item.DOI # "None"
            /\ \A k \in 1 .. Len(result.corrections) : result.corrections[k] # item.DOI
         THEN [result EXCEPT !.corrections = Append(@, item.DOI)]
         ELSE result
    ELSE result

\* lines 178-188: the loop over items; a malformed item or entry raises and ends it
RECURSIVE FilterLoop(_, _, _)
FilterLoop(result, items, doi_clean) ==
    IF items = << >> THEN result
    ELSE IF Head(items) = BadItem THEN result
    ELSE IF Head(items).updates = << >> THEN FilterLoop(result, Tail(items), doi_clean)
    ELSE IF Head(items).updates[1] = BadUpd THEN result
    ELSE FilterLoop(FilterUpd(result, Head(items), Head(items).updates[1], doi_clean),
                    Tail(items), doi_clean)

\* lines 170-190: result after the second CrossRef block
Filter(result, resp, doi_clean) ==
    IF resp.status # "ok" \/ resp.message # "dict" THEN result
    ELSE FilterLoop(result, resp.items, doi_clean)

\* the responses of https://pubpeer.com/api/publications?doi=
PubPeerResponses ==
    Failures
    \cup { [status |-> "ok", form |-> "null", pubs |-> "absent", comments |-> NullCount] }
    \cup { [status |-> "ok", form |-> "dict", pubs |-> "absent", comments |-> NullCount] }
    \cup { [status |-> "ok", form |-> f, pubs |-> pb, comments |-> NullCount] :
             f \in {"list", "dict"}, pb \in {"empty", "bad"} }
    \cup { [status |-> "ok", form |-> f, pubs |-> "entry", comments |-> c] :
             f \in {"list", "dict"}, c \in {NullCount, 0, 7} }

\* lines 193-202: result after the PubPeer block
PubPeer(result, resp) ==
    IF resp.status # "ok" \/ resp.form = "null" \/ resp.pubs # "entry" THEN result
    ELSE [result EXCEPT !.pubpeer_comments = OrZero(resp.comments)]

\* the values of the argument orcid: None, the empty string, a bare identifier
\* and the URL form
Orcids == {"None", "", "0000-0002-2724-5275", "https://orcid.org/0000-0002-2724-5275"}

\* lines 237-244
AuthorDefaults(o) ==
    [works_count |-> 0, cited_by_count |-> 0, h_index |-> 0, institution |-> "None",
     top_fields |-> << >>, orcid |-> o]

\* a topic that is not a JSON object
BadTopic == [display_name |-> "bad", count |-> NullCount]

\* the topics of an author record; a topic may lack its display_name or its count
Topics ==
    { [display_name |-> "Statistics", count |-> 31],
      [display_name |-> "Evolutionary Biology", count |-> 78],
      [display_name |-> "Epidemiology", count |-> NullCount],
      [display_name |-> "None", count |-> 12],
      BadTopic }

\* an h_index standing for a summary_stats that is not a JSON object
BadStats == -2

\* the author records of OpenAlex, as far as the code reads them
Authors ==
    { [works_count |-> w, cited_by_count |-> c, summary_stats |-> h, orcid |-> o,
       affiliations |-> a, last_known_institutions |-> l, topics |-> t] :
        w \in {NullCount, 187}, c \in {NullCount, 20455},
        h \in {NullCount, BadStats, 0, 64},
        o \in {"None", "https://orcid.org/0000-0002-2724-5275"},
        a \in {"absent", "bad", "null_institution", "University of Washington"},
        l \in {"absent", "bad", "Santa Fe Institute"},
        t \in SeqUpTo(Topics, MaxTopics) }

\* the responses of https://api.openalex.org/authors/... : the record itself
\* (ORCID endpoint) or a result list (search endpoint)
AuthorResponses ==
    Failures
    \cup { [status |-> "ok", results |-> r, author |-> "None"] :
             r \in {"not_a_dict", "absent", "empty", "bad"} }
    \cup { [status |-> "ok", results |-> "entry", author |-> a] : a \in Authors }

\* x.get("count", 0) of the sort key, line 285
CountOf(t) == IF t.count = NullCount THEN 0 ELSE t.count

\* sorted(topics, key=count, reverse=True): a stable sort, by insertion
RECURSIVE InsertSorted(_, _)
InsertSorted(t, sorted) ==
    IF sorted = << >> THEN << t >>
    ELSE IF CountOf(Head(sorted)) >= CountOf(t)
         THEN << Head(sorted) >> \o InsertSorted(t, Tail(sorted))
         ELSE << t >> \o sorted
RECURSIVE SortedTopics(_)
SortedTopics(topics) ==
    IF topics = << >> THEN << >>
    ELSE InsertSorted(topics[Len(topics)],
                      SortedTopics(SubSeq(topics, 1, Len(topics) - 1)))

\* lines 283-287: the display names of the first five sorted topics that have one
RECURSIVE NamesOf(_)
NamesOf(topics) ==
    IF topics = << >> THEN << >>
    ELSE IF Head(topics).display_name = "None" THEN NamesOf(Tail(topics))
    ELSE << Head(topics).display_name >> \o NamesOf(Tail(topics))
TopFields(topics) ==
    LET sorted == SortedTopics(topics)
    IN  NamesOf(SubSeq(sorted, 1, IF Len(sorted) < 5 THEN Len(sorted) ELSE 5))

\* lines 266-287: result filled from an author record, assignment by
\* assignment; a malformed part raises and leaves the later fields as they were
Fill(result, author) ==
    LET r2 == [result EXCEPT !.works_count = OrZero(author.works_count),
                             !.cited_by_count = OrZero(author.cited_by_count)]
        r4 == [r2 EXCEPT !.h_index = OrZero(author.summary_stats),
                         !.orcid = author.orcid]
        r5 == IF author.affiliations # "absent"
              THEN [r4 EXCEPT !.institution = author.affiliations]
              ELSE IF author.last_known_institutions # "absent"
              THEN [r4 EXCEPT !.institution = author.last_known_institutions]
              ELSE r4
    IN  IF author.summary_stats = BadStats THEN r2
        ELSE IF author.affiliations \in {"bad", "null_institution"} THEN r4
        ELSE IF author.affiliations = "absent" /\ author.last_known_institutions = "bad"
        THEN r4
        ELSE IF \E k \in 1 .. Len(author.topics) : author.topics[k] = BadTopic THEN r5
        ELSE [r5 EXCEPT !.top_fields = TopFields(author.topics)]

\* the record {}: every key absent
EmptyAuthor ==
    [works_count |-> NullCount, cited_by_count |-> NullCount,
     summary_stats |-> NullCount, orcid |-> "None", affiliations |-> "absent",
     last_known_institutions |-> "absent", topics |-> << >>]

\* lines 246-289: result after the try block of check_author.  With an orcid
\* the document is the author record (lines 248-253), without one it is a
\* result list, and an empty list returns at once (lines 255-264).
Author(result, resp, o) ==
    IF resp.status # "ok" \/ resp.results \in {"not_a_dict", "bad"} THEN result
    ELSE IF resp.results = "entry" THEN Fill(result, resp.author)
    ELSE IF o \notin {"None", ""} THEN Fill(result, EmptyAuthor)
    ELSE result

---------------------------------------------------------------------------
(* The exception a block of a lookup raises inside its try, or "none" *)

\* requests.get, raise_for_status (where the code calls it) and resp.json()
Transport(resp, raise_for_status) ==
    CASE resp.status = "network_error" -> "ConnectionError"
      [] resp.status = "http_error" /\ raise_for_status -> "HTTPError"
      [] resp.status = "bad_json" -> "JSONDecodeError"
      [] OTHER -> "none"

DoajRaises(resp) ==
    IF resp.status # "ok" THEN Transport(resp, TRUE)
    ELSE CASE resp.total = "not_a_dict" -> "AttributeError"
           [] resp.total = "not_a_number" -> "TypeError"
           [] resp.total = "positive" /\ resp.results = "absent" -> "KeyError"
           [] resp.total = "positive" /\ resp.results = "empty" -> "IndexError"
           [] resp.total = "positive" /\ resp.results = "bad" -> "AttributeError"
           [] resp.total = "positive" /\ resp.results = "entry"
                /\ (resp.publisher = "not_a_dict" \/ FirstIssn(resp.identifier) = "raised")
                -> "AttributeError"
           [] OTHER -> "none"

SourcesRaises(resp) ==
    IF resp.status # "ok" THEN Transport(resp, TRUE)
    ELSE IF resp.results \in {"not_a_dict", "bad"} THEN "AttributeError" ELSE "none"

WorkRaises(resp) ==
    IF resp.status # "ok" THEN Transport(resp, FALSE)
    ELSE IF resp.message = "not_a_dict"
            \/ \E k \in 1 .. Len(resp.updates) : resp.updates[k] = BadUpd
    THEN "AttributeError" ELSE "none"

FilterRaises(resp) ==
    IF resp.status # "ok" THEN Transport(resp, FALSE)
    ELSE IF resp.message = "not_a_dict"
            \/ \E k \in 1 .. Len(resp.items) :
                   \/ resp.items[k] = BadItem
                   \/ resp.items[k].updates = << BadUpd >>
    THEN "AttributeError" ELSE "none"

PubPeerRaises(resp) ==
    IF resp.status # "ok" THEN Transport(resp, FALSE)
    ELSE IF resp.form = "null" \/ resp.pubs = "bad"
    THEN "AttributeError" ELSE "none"

AuthorRaises(resp, o) ==
    IF resp.status # "ok" THEN Transport(resp, TRUE)
    ELSE IF resp.results \in {"not_a_dict", "bad"} THEN "AttributeError"
    ELSE IF resp.results = "entry"
            /\ \/ resp.author.summary_stats = BadStats
               \/ resp.author.affiliations \in {"bad", "null_institution"}
               \/ /\ resp.author.affiliations = "absent"
                  /\ resp.author.last_known_institutions = "bad"
               \/ \E k \in 1 .. Len(resp.author.topics) : resp.author.topics[k] = BadTopic
    THEN "AttributeError" ELSE "none"

\* a variant of the handlers that catches only the errors of the requests library
MutCaught(e) == e \in {"ConnectionError", "HTTPError", "JSONDecodeError"}

\* except Exception: every exception raised inside a try block is caught
Caught(e) == TRUE


---------------------------------------------------------------------------
(* The steps of the lookups: one per request, and the return *)

\* a try block: the request named by stage is made, resp is its response,
\* raises the exception raised inside the block ("none" if none), filled the
\* result when the block ends, next the code after the block
Block(resp, raises, filled, next) ==
    /\ response' = resp
    /\ requests_made' = Append(requests_made, stage)
    /\ lookup_result' = filled
    /\ IF raises # "none" /\ ~Caught(raises)
       THEN lookup_exc' = raises /\ stage' = "raised"
       ELSE lookup_exc' = lookup_exc /\ stage' = next
    /\ UNCHANGED << fn, doi, orcid, notScreen >>

\* check_journal, lines 72-90
JournalDoaj ==
    /\ fn = "check_journal" /\ stage = "doaj"
    /\ \E resp \in DoajResponses :
           Block(resp, DoajRaises(resp), Doaj(lookup_result, resp), "sources")

\* check_journal, lines 93-112
JournalSources ==
    /\ fn = "check_journal" /\ stage = "sources"
    /\ \E resp \in SourcesResponses :
           Block(resp, SourcesRaises(resp), Sources(lookup_result, resp), "return")

\* check_retraction, lines 154-166
RetractionWork ==
    /\ fn = "check_retraction" /\ stage = "work"
    /\ \E resp \in WorkResponses :
           Block(resp, WorkRaises(resp), Work(lookup_result, resp), "filter")

\* check_retraction, lines 170-190
RetractionFilter ==
    /\ fn = "check_retraction" /\ stage = "filter"
    /\ \E resp \in FilterResponses :
           Block(resp, FilterRaises(resp),
                 Filter(lookup_result, resp, DoiClean(doi)), "pubpeer")

\* check_retraction, lines 193-202
RetractionPubPeer ==
    /\ fn = "check_retraction" /\ stage = "pubpeer"
    /\ \E resp \in PubPeerResponses :
           Block(resp, PubPeerRaises(resp), PubPeer(lookup_result, resp), "return")

\* check_author, lines 246-289
AuthorLookup ==
    /\ fn = "check_author" /\ stage = "author"
    /\ \E resp \in AuthorResponses :
           Block(resp, AuthorRaises(resp, orcid), Author(lookup_result, resp, orcid),
                 "return")

\* return result: lines 114, 204, 263 and 291
LookupReturn ==
    /\ stage = "return"
    /\ stage' = "returned"
    /\ UNCHANGED << fn, doi, orcid, lookup_result, response, requests_made,
                    lookup_exc, notScreen >>

InitScreening ==
    /\ GrimmerIdle
    /\ RoundIdle
    /\ PIdle
    /\ PowerIdle
    /\ response = [status |-> "none"]
    /\ requests_made = << >>
    /\ lookup_exc = "none"
    /\ \/ /\ fn = "check_journal" /\ doi = "None" /\ orcid = "None"
          /\ stage = "doaj"
          /\ lookup_result = JournalDefaults
       \/ /\ fn = "check_retraction" /\ doi \in Dois /\ orcid = "None"
          /\ stage = "work"
          /\ lookup_result = RetractionDefaults(doi)
       \/ /\ fn = "check_author" /\ doi = "None" /\ orcid \in Orcids
          /\ stage = "author"
          /\ lookup_result = AuthorDefaults(orcid)

NextScreening ==
    \/ JournalDoaj \/ JournalSources
    \/ RetractionWork \/ RetractionFilter \/ RetractionPubPeer
    \/ AuthorLookup
    \/ LookupReturn

SpecScreening == InitScreening /\ [][NextScreening]_vars

---------------------------------------------------------------------------
(* check_p_value, p_checker.py.  A p-value is an integer count of units of *)
(* 1/PDen, or PNaN.  What scipy.stats returns for the statistic is an      *)
(* input of the model; the arithmetic the function does on it is exact in  *)
(* floating point (doubling and halving).                                  *)

\* the unit of a p-value is 1/PDen
PDen == 40000

\* float("nan"): every comparison with it is false
PNaN == -1

\* a < b on floats
Lt(a, b) == a # PNaN /\ b # PNaN /\ a < b

\* a <= b on floats
Le(a, b) == a # PNaN /\ b # PNaN /\ a <= b

\* the values returned by stats.t.sf, stats.norm.sf, stats.f.sf and
\* stats.chi2.sf: 0, 0.009, 0.01815, 0.031, 0.0363, 0.0499, 0.0745, 0.149,
\* 0.5, 1 and nan
SfValues == {0, 360, 726, 1240, 1452, 1996, 2980, 5960, 20000, 40000, PNaN}

\* the values of alpha: 0.01, 0.05, 0.10
Alphas == {400, 2000, 4000}

\* the values of reported_p with the number of decimals of str(reported_p):
\* None, 0.04, 0.05, 0.031, 0.001, 0.5, 0.0, 1.0, 1 and nan
ReportedPs ==
    { [given |-> FALSE, value |-> 0, decimals |-> 0] }
    \cup { [given |-> TRUE, value |-> r[1], decimals |-> r[2]] :
             r \in { << 1600, 2 >>, << 2000, 2 >>, << 1240, 3 >>, << 40, 3 >>,
                     << 20000, 1 >>, << 0, 1 >>, << 40000, 1 >>, << 40000, 0 >>,
                     << PNaN, 0 >> } }

\* the calls of check_p_value
PCalls ==
    [test_type : {"t", "F", "chi2", "z", "r", "Q", "U"},
     statistic : {"below_one", "one", "above_one"},
     df1 : {28, -1},
     df2 : {"None", "given"},
     reported_p : ReportedPs,
     reported_comparison : {"=", "<", ">", "<="},
     alpha : Alphas,
     one_tailed : BOOLEAN]

\* line 83: test_type.lower()
LowerType(t) ==
    CASE t = "F" -> "f"
      [] t = "Q" -> "q"
      [] t = "U" -> "u"
      [] OTHER -> t

\* lines 85-109: the exception the recomputation raises, or "none"
RecomputeRaises(args) ==
    LET tt == LowerType(args.test_type)
    IN  IF tt = "f" /\ args.df2 = "None" THEN "ValueError"
        ELSE IF tt = "r" /\ args.statistic = "below_one" /\ args.df1 < 0
        THEN "ValueError"
        ELSE IF tt \notin {"t", "f", "chi2", "z", "r", "q"} THEN "ValueError"
        ELSE "none"

\* 2 * x on floats
Twice(x) == IF x = PNaN THEN PNaN ELSE 2 * x

\* lines 85-104: computed_p from sf, the value scipy returns
Recomputed(args, sf) ==
    LET tt == LowerType(args.test_type)
    IN  IF tt \in {"t", "z"} THEN Twice(sf)
        ELSE IF tt = "r"
        THEN IF args.statistic = "one" THEN 0
             ELSE IF args.statistic = "above_one" THEN PNaN
             ELSE Twice(sf)
        ELSE sf

\* lines 111-112
Halved(p, one_tailed) ==
    IF one_tailed /\ p # PNaN THEN p \div 2 ELSE p

\* line 126: 0.5 * 10 ** (-decimals), in units of 1/PDen
Tolerance(decimals) == PDen \div (2 * Pow10(decimals))

\* lines 128-136
Consistent(p, reported, comparison) ==
    CASE comparison = "=" ->
             IF /\ p # PNaN /\ reported.value # PNaN
                /\ Abs(p - reported.value) <= Tolerance(reported.decimals)
             THEN "True" ELSE "False"
      [] comparison = "<" -> IF Lt(p, reported.value) THEN "True" ELSE "False"
      [] comparison = ">" -> IF Lt(reported.value, p) THEN "True" ELSE "False"
      [] OTHER -> "None"

\* a variant that counts a p-value equal to alpha as significant
MutDecisionError(p, reported, a) ==
    IF Le(reported.value, a) # Le(p, a) THEN "True" ELSE "False"

\* lines 139-141
DecisionError(p, reported, a) ==
    IF Lt(reported.value, a) # Lt(p, a) THEN "True" ELSE "False"

\* lines 83-112: the recomputation of the p-value
CheckPValueRecompute ==
    /\ p_stage = "recompute"
    /\ IF RecomputeRaises(check_p_args) # "none"
       THEN /\ p_stage' = "raised"
            /\ p_ret' = << RecomputeRaises(check_p_args) >>
            /\ UNCHANGED computed_p
       ELSE /\ \E sf \in SfValues :
                  /\ LowerType(check_p_args.test_type) \in {"t", "z", "r"}
                         => sf <= PDen \div 2
                  /\ computed_p' = Halved(Recomputed(check_p_args, sf),
                                          check_p_args.one_tailed)
            /\ p_stage' = "compare"
            /\ UNCHANGED p_ret
    /\ UNCHANGED << check_p_args, consistent, decision_error, notP >>

\* lines 114-141: the comparison with the reported p-value
CheckPValueCompare ==
    /\ p_stage = "compare"
    /\ IF check_p_args.reported_p.given
       THEN /\ consistent' = Consistent(computed_p, check_p_args.reported_p,
                                        check_p_args.reported_comparison)
            /\ decision_error' = DecisionError(computed_p, check_p_args.reported_p,
                                               check_p_args.alpha)
       ELSE /\ consistent' = "None"
            /\ decision_error' = "None"
    /\ p_stage' = "return"
    /\ UNCHANGED << check_p_args, computed_p, p_ret, notP >>

\* lines 143-152
CheckPValueReturn ==
    /\ p_stage = "return"
    /\ p_ret' = << [computed_p |-> computed_p,
                    reported_p |-> check_p_args.reported_p,
                    consistent |-> consistent,
                    decision_error |-> decision_error,
                    test_type |-> LowerType(check_p_args.test_type),
                    statistic |-> check_p_args.statistic,
                    df1 |-> check_p_args.df1,
                    df2 |-> check_p_args.df2] >>
    /\ p_stage' = "returned"
    /\ UNCHANGED << check_p_args, computed_p, consistent, decision_error, notP >>

InitP ==
    /\ GrimmerIdle
    /\ RoundIdle
    /\ ScreenIdle
    /\ PowerIdle
    /\ check_p_args \in PCalls
    /\ computed_p = 0
    /\ consistent = "None"
    /\ decision_error = "None"
    /\ p_stage = "recompute"
    /\ p_ret = << >>

NextP == CheckPValueRecompute \/ CheckPValueCompare \/ CheckPValueReturn

SpecP == InitP /\ [][NextP]_vars

---------------------------------------------------------------------------
(* achieved_power, power.py.  A power is an integer count of units of      *)
(* 1/PwrDen, or PNaN.  The value of the scipy.stats.norm expression of     *)
(* lines 240-245 is an input of the model.                                 *)

\* power values near the thresholds 0.50 and 0.80 are taken PwrWindow units
\* to either side
PwrWindow == 12

\* the unit of a power is 1/PwrDen
PwrDen == 100000

\* the thresholds 0.80 and 0.50 of lines 248-252
Pwr80 == (80 * PwrDen) \div 100
Pwr50 == (50 * PwrDen) \div 100

\* an integer argument that is None
NoneInt == -1

\* the values of the expression of lines 240-245: 0, 0.201, 0.8725, 1, nan and
\* the values around the two thresholds
PwrValues ==
    {0, 20100, 87250, PwrDen, PNaN}
    \cup (Pwr50 - PwrWindow .. Pwr50 + PwrWindow)
    \cup (Pwr80 - PwrWindow .. Pwr80 + PwrWindow)

\* the calls of achieved_power; sd12 says which of sd1 and sd2 are given
PowerCalls ==
    [d : {"None", "given"},
     effect_size : {"None", "given"},
     sd : {"None", "zero", "positive"},
     sd12 : {"None", "sd1", "both", "both_zero"},
     n_per_group : {NoneInt, 49},
     n_total : {NoneInt, 99},
     alpha : {5, 10},
     alternative : {"two-sided", "one-sided"}]

\* lines 224-235: how d_cohen is resolved, or the exception raised
ResolvedD(args) ==
    IF args.effect_size # "None" THEN "effect_size"
    ELSE IF args.d # "None"
    THEN IF args.sd12 \in {"both", "both_zero"}
         THEN IF args.sd12 = "both_zero" THEN "ZeroDivisionError" ELSE "d / pooled sd"
         ELSE IF args.sd # "None"
         THEN IF args.sd = "zero" THEN "ZeroDivisionError" ELSE "d / sd"
         ELSE "ValueError"
    ELSE "ValueError"

\* line 247: float(min(pwr, 1.0))
MinOne(p) == IF p # PNaN /\ p > PwrDen THEN PwrDen ELSE p

\* a >= b on floats
Ge(a, b) == a # PNaN /\ b # PNaN /\ a >= b

\* line 260: the values round(pwr, 4) can take, in units of 1/PwrDen.  A
\* decimal ending in 5 stands for a double just below or just above it, so
\* both neighbours are possible.
Round4(p) ==
    IF p = PNaN THEN {PNaN}
    ELSE LET unit == PwrDen \div 10000
             low == (p \div unit) * unit
         IN  IF 2 * (p - low) < unit THEN {low}
             ELSE IF 2 * (p - low) > unit THEN {low + unit}
             ELSE {low, low + unit}

\* lines 250-257, by the first word of the text
Interpretation(p) ==
    IF Ge(p, Pwr80) THEN "Adequate"
    ELSE IF Ge(p, Pwr50) THEN "Marginal"
    ELSE "Underpowered"

\* lines 218-221
PowerResolveN ==
    /\ power_stage = "n"
    /\ LET resolved == IF power_args.n_per_group = NoneInt /\ power_args.n_total # NoneInt
                       THEN power_args.n_total \div 2
                       ELSE power_args.n_per_group
       IN  /\ n_per_group' = resolved
           /\ IF resolved = NoneInt
              THEN power_stage' = "raised" /\ power_ret' = << "ValueError" >>
              ELSE power_stage' = "d" /\ UNCHANGED power_ret
    /\ UNCHANGED << power_args, d_cohen, pwr, adequate, interpretation, notPower >>

\* lines 224-235
PowerResolveD ==
    /\ power_stage = "d"
    /\ IF ResolvedD(power_args) \in {"ValueError", "ZeroDivisionError"}
       THEN /\ power_stage' = "raised"
            /\ power_ret' = << ResolvedD(power_args) >>
            /\ UNCHANGED d_cohen
       ELSE /\ power_stage' = "power"
            /\ d_cohen' = ResolvedD(power_args)
            /\ UNCHANGED power_ret
    /\ UNCHANGED << power_args, n_per_group, pwr, adequate, interpretation, notPower >>

\* lines 238-247
PowerCompute ==
    /\ power_stage = "power"
    /\ \E p \in PwrValues : pwr' = MinOne(p)
    /\ power_stage' = "assess"
    /\ UNCHANGED << power_args, n_per_group, d_cohen, adequate, interpretation,
                    power_ret, notPower >>

\* lines 248-257
PowerAssess ==
    /\ power_stage = "assess"
    /\ adequate' = Ge(pwr, Pwr80)
    /\ interpretation' = Interpretation(pwr)
    /\ power_stage' = "return"
    /\ UNCHANGED << power_args, n_per_group, d_cohen, pwr, power_ret, notPower >>

\* lines 259-266
PowerReturn ==
    /\ power_stage = "return"
    /\ \E rounded \in Round4(pwr) :
           power_ret' = << [power |-> rounded,
                            n_per_group |-> n_per_group,
                            effect_size_d |-> d_cohen,
                            alpha |-> power_args.alpha,
                            adequate |-> adequate,
                            interpretation |-> interpretation] >>
    /\ power_stage' = "returned"
    /\ UNCHANGED << power_args, n_per_group, d_cohen, pwr, adequate, interpretation,
                    notPower >>

InitPower ==
    /\ GrimmerIdle
    /\ RoundIdle
    /\ ScreenIdle
    /\ PIdle
    /\ power_args \in PowerCalls
    /\ n_per_group = 0
    /\ d_cohen = "unset"
    /\ pwr = 0
    /\ adequate = FALSE
    /\ interpretation = ""
    /\ power_stage = "n"
    /\ power_ret = << >>

NextPower ==
    PowerResolveN \/ PowerResolveD \/ PowerCompute \/ PowerAssess \/ PowerReturn

SpecPower == InitPower /\ [][NextPower]_vars

---------------------------------------------------------------------------
(* What the claims speak of, stated from the mathematics and not from the  *)
(* code's helpers                                                          *)

Returned == ret # << >>
Ended == pc \in {"done", "raised"}
TheVerdict == ret[1]

\* the integer nearest to mean * n, ties to the even integer
NearestSum ==
    LET p == Pow10(decimals_mean)
        f == FloorDiv(mean * n, p)
    IN  CHOOSE r \in {f, f + 1} :
            /\ 2 * Abs(r * p - mean * n) <= p
            /\ 2 * Abs(r * p - mean * n) = p => r % 2 = 0

\* k / 10^d is a nearest d-decimal value to a / b (either neighbour at a tie)
RoundsTo(a, b, d, k) == 2 * Abs(k * Abs(b) - (IF b > 0 THEN a ELSE -a) * Pow10(d)) <= Abs(b)

\* k / 10^d is a nearest d-decimal value to sqrt(a / b), for a >= 0, b > 0, k >= 0
\* (4 * a * 10^2d lies between (2k - 1)^2 * b and (2k + 1)^2 * b; a is an integer)
SqrtRoundsTo(a, b, d, k) ==
    /\ a <= FloorDiv((2 * k + 1) * (2 * k + 1) * b, 4 * Pow10(d) * Pow10(d))
    /\ k = 0 \/ CeilDiv((2 * k - 1) * (2 * k - 1) * b, 4 * Pow10(d) * Pow10(d)) <= a

\* GRIM passes for the integer sum r: r / n rounds to the reported mean
GrimHolds(r) == RoundsTo(r, n, decimals_mean, mean)

\* the sum of squares x lies in the window of stage 2 for the integer sum r:
\* (n-1) * lsigma^2 + r^2 / n <= x <= (n-1) * usigma^2 + r^2 / n, the two
\* bounds being the doubles the code computes: a bound that is an integer in
\* exact arithmetic excludes that integer when the double lies beyond it
InWindow(r, x) ==
    LET p == Pow10(decimals_sd)
        ls == IF sd < 5 THEN 0 ELSE sd - 5
        us == sd + 5
        lo == (n - 1) * ls * ls * n + r * r * p * p
        hi == (n - 1) * us * us * n + r * r * p * p
    IN  IF n > 0 THEN /\ lo <= x * p * p * n /\ x * p * p * n <= hi
                      /\ lo = x * p * p * n => SquareError(r) <= 0
                      /\ hi = x * p * p * n => SquareError(r) >= 0
                 ELSE lo >= x * p * p * n /\ x * p * p * n >= hi

\* the standard deviation reconstructed from sum r and sum of squares x,
\* sqrt((x - r^2 / n) / (n - 1)), exists and rounds to the reported sd
SdHolds(r, x) ==
    /\ n * (n - 1) > 0
    /\ x * n - r * r >= 0
    /\ SqrtRoundsTo(x * n - r * r, n * (n - 1), decimals_sd, sd)

\* integers that contain every window of the model's calls
Candidates(r) ==
    LET p == Pow10(decimals_sd)
        top == (Abs(n) + 1) * (((sd + 5) * (sd + 5)) \div (p * p) + 1)
                 + (IF n = 0 THEN r * r ELSE (r * r) \div Abs(n)) + 1
    IN  (-top) .. top

\* a sample of n integers whose statistics round to the reported ones.  Each
\* value of such a sample lies within sqrt(n - 1) * (sd + half a unit) of the
\* sample's mean, which lies within one unit of the reported mean.
SampleValues ==
    LET pm == Pow10(decimals_mean)
        ps == Pow10(decimals_sd)
        radius == CeilTimes(Sqrt(Rat((n - 1) * (2 * sd + 1) * (2 * sd + 1), 4 * ps * ps)), 1)
    IN  (FloorDiv(mean, pm) - 1 - radius) .. (CeilDiv(mean, pm) + 1 + radius)

SampleExists ==
    \E s \in [1 .. n -> SampleValues] :
        /\ RoundsTo(SumOf(s), n, decimals_mean, mean)
        /\ SqrtRoundsTo(n * SumSqOf(s) - SumOf(s) * SumOf(s), n * (n - 1), decimals_sd, sd)

IsCall(k, m, s, dm, ds) ==
    n = k /\ mean = m /\ sd = s /\ decimals_mean = dm /\ decimals_sd = ds

---------------------------------------------------------------------------
(* Claims *)

\* C1: no false negatives.  A call whose mean and sd are the exact mean and the
\* exact sample standard deviation of n integers (2 <= n <= 10^decimals_mean),
\* each rounded half-up or half-down, returns "consistent".
C1_NoFalseNegative ==
    (Ended /\ data # << >> /\ n <= Pow10(decimals_mean))
        => (Returned /\ TheVerdict.result = "consistent")

\* C1 witness: such a call has returned, for a sample whose mean and whose
\* standard deviation both lie exactly halfway between two reportable values
C1_Witness ==
    /\ pc = "done" /\ data # << >> /\ n <= Pow10(decimals_mean)
    /\ TheVerdict.result = "consistent"
    /\ Cardinality(ReportedMeans(data, decimals_mean)) = 2
    /\ Cardinality(ReportedSds(data, decimals_sd)) = 2

\* C2 as claimed: whenever a call with n >= 2 returns "consistent", a sample
\* of n integers exists whose mean rounds to mean and whose sample standard
\* deviation rounds to sd (searched for the calls with n <= MaxDataN)
C2_ConsistentHasSample ==
    (pc = "done" /\ n >= 2 /\ n <= MaxDataN /\ TheVerdict.result = "consistent")
        => SampleExists

\* C3: parity gate.  When GRIM passes and some candidate passes the SD-rounding
\* test, but no candidate that passes it has the parity of realsum, the call
\* returns "GRIMMER inconsistent" with grim_passed true and grimmer_passed
\* false; a_grimmer(18, 3.44, 2.47) returns "GRIMMER inconsistent", grim_passed true.
C3_ParityGate ==
    Ended =>
      /\ ( /\ n <= Pow10(decimals_mean)
           /\ GrimHolds(NearestSum)
           /\ \E x \in Candidates(NearestSum) :
                  InWindow(NearestSum, x) /\ SdHolds(NearestSum, x)
           /\ \A x \in Candidates(NearestSum) :
                  (InWindow(NearestSum, x) /\ SdHolds(NearestSum, x))
                      => x % 2 # NearestSum % 2 )
         => ( /\ Returned
              /\ TheVerdict.result = "GRIMMER inconsistent"
              /\ TheVerdict.grim_passed = "True"
              /\ TheVerdict.grimmer_passed = "False" )
      /\ IsCall(18, 344, 247, 2, 2)
         => ( /\ Returned
              /\ TheVerdict.result = "GRIMMER inconsistent"
              /\ TheVerdict.grim_passed = "True" )

\* C3 witness: the call (18, 3.44, 2.47) has been decided at the parity stage:
\* the candidate 317 passed the SD-rounding test and is odd, realsum = 62 is even
C3_Witness ==
    /\ pc = "done" /\ IsCall(18, 344, 247, 2, 2)
    /\ AnyTrue(matches_sd) /\ ~AnyTrue(third_test)
    /\ realsum = 62
    /\ \E k \in 1 .. Len(matches_sd) : matches_sd[k] /\ possible_integers[k] = 317
    /\ TheVerdict.result = "GRIMMER inconsistent"

\* C4: GRIM gate.  For n <= 10^decimals_mean (n # 0), with realsum the integer
\* nearest to mean * n and realmean = realsum / n: if realmean rounds to the
\* reported mean neither half-down nor half-up, the call returns "GRIM
\* inconsistent", grim_passed false, grimmer_passed null, reconstructed_mean
\* realmean; a_grimmer(10, 3.45, 1.50) returns "GRIM inconsistent".
C4_GrimGate ==
    Ended =>
      /\ (n <= Pow10(decimals_mean) /\ n # 0 /\ ~GrimHolds(NearestSum))
         => ( /\ Returned
              /\ TheVerdict = Verdict("GRIM inconsistent", "False", "None",
                                      Rat(NearestSum, n)) )
      /\ IsCall(10, 345, 150, 2, 2)
         => (Returned /\ TheVerdict.result = "GRIM inconsistent")

\* C4 witness: the call (10, 3.45, 1.50) returned with reconstructed_mean 34/10
C4_Witness ==
    /\ pc = "done" /\ IsCall(10, 345, 150, 2, 2)
    /\ TheVerdict.result = "GRIM inconsistent"
    /\ TheVerdict.reconstructed_mean = Rat(34, 10)

C7_NoException == (n >= 1 /\ sd >= 0) => exc = "none"

\* C8 as claimed: a call with n <= 0 returns no verdict and ends by signalling
\* an InvalidInput failure
C8_MalformedRejected ==
    n <= 0 => (~Returned /\ (Ended => exc = "InvalidInput"))

\* C9: grimmer_passed is non-null only if grim_passed is true, and no GRIMMER
\* stage (sum-of-squares bounds, SD reconstruction, parity) is entered, and none
\* of their locals assigned, unless the GRIM stage was evaluated and passed
C9_GrimmerAfterGrim ==
    /\ Returned => ( TheVerdict.grimmer_passed # "None"
                         => TheVerdict.grim_passed = "True" )
    /\ ( \/ pc \in {"bounds", "loop", "parity"}
         \/ possible_integers # << >>
         \/ matches_sd # << >>
         \/ (Returned /\ TheVerdict.grimmer_passed # "None") )
       => ( /\ n <= Pow10(decimals_mean)
            /\ n # 0
            /\ GrimHolds(NearestSum) )

\* C9 witness: a call was decided by the sum-of-squares window (no integer in
\* it), after GRIM passed
C9_Witness ==
    /\ pc = "done"
    /\ TheVerdict.grimmer_passed = "False" /\ TheVerdict.grim_passed = "True"
    /\ possible_integers = << >>
    /\ GrimHolds(NearestSum)

C15_DocumentedExample ==
    (Ended /\ IsCall(20, 345, 182, 2, 2))
        => (Returned /\ TheVerdict.result = "GRIM inconsistent")

\* the integers of the sum-of-squares window for the integer sum r
Window(r) == { x \in Candidates(r) : InWindow(r, x) }

---------------------------------------------------------------------------
(* Claims about the later stages of a_grimmer *)

\* GRIM was evaluated and passed, for a sample size the later stages accept
PastGrim ==
    /\ pc \in {"loop", "parity", "done"}
    /\ n >= 2 /\ n <= Pow10(decimals_mean)
    /\ GrimHolds(NearestSum)

\* C21: SD-reconstruction gate.  Candidate x is recorded as matching exactly
\* when its variance (x - n * realmean^2) / (n - 1) is non-negative and its
\* square root rounds, half-down or half-up, to the reported sd; a candidate
\* with negative variance is recorded as non-matching; the enumeration covers
\* every candidate without raising; and when no candidate matches the call
\* returns "GRIMMER inconsistent" with grim_passed true, grimmer_passed false.
C21_SdGate ==
    (PastGrim /\ possible_integers # << >>)
    => /\ exc = "none"
       /\ Len(matches_sd) <= Len(possible_integers)
       /\ \A k \in 1 .. Len(matches_sd) :
              LET x == possible_integers[k]
              IN  /\ matches_sd[k] <=> SdHolds(NearestSum, x)
                  /\ x * n - NearestSum * NearestSum < 0 => ~matches_sd[k]
       /\ pc \in {"parity", "done"}
          => /\ Len(matches_sd) = Len(possible_integers)
             /\ (\A k \in 1 .. Len(matches_sd) :
                     ~SdHolds(NearestSum, possible_integers[k]))
                => /\ pc = "done"
                   /\ ret = << Verdict("GRIMMER inconsistent", "True", "False",
                                       Rat(NearestSum, n)) >>

\* C21 witness: a call was decided at the SD gate: its window held several
\* candidates, all were examined and none reconstructs the reported sd
C21_Witness ==
    /\ PastGrim /\ pc = "done"
    /\ Len(possible_integers) >= 2
    /\ Len(matches_sd) = Len(possible_integers)
    /\ \A k \in 1 .. Len(matches_sd) : ~SdHolds(NearestSum, possible_integers[k])
    /\ TheVerdict.result = "GRIMMER inconsistent"


\* the moves from gate to gate: applicability, GRIM, sum-of-squares range, SD
\* reconstruction (one step per candidate), parity
GateOrder ==
    { << "guard", "grim" >>, << "grim", "bounds" >>, << "bounds", "loop" >>,
      << "loop", "loop" >>, << "loop", "parity" >>,
      << "guard", "done" >>, << "grim", "done" >>, << "bounds", "done" >>,
      << "loop", "done" >>, << "parity", "done" >>,
      << "grim", "raised" >>, << "loop", "raised" >> }

\* a step of a call: it goes from a gate to a later one or ends the call, the
\* verdict is assigned once, by the step that ends the call, and the gate that
\* ends the call decides the outcome
GateStep ==
    /\ << pc, pc' >> \in GateOrder
    /\ ret' # ret <=> pc' = "done"
    /\ pc' = "done" =>
          /\ ret = << >> /\ Len(ret') = 1
          /\ pc = "guard" => ret'[1].grim_passed = "None"
          /\ pc = "grim" => ret'[1].result = "GRIM inconsistent"
          /\ pc \in {"bounds", "loop"} => ret'[1].result = "GRIMMER inconsistent"
          /\ pc = "parity" => ret'[1].grim_passed = "True"

\* the output of a call stopped by the first or the second gate, written
\* without sd and decimals_sd (and, for the first gate, with mean only echoed)
FirstFailure ==
    Ended =>
      /\ n > Pow10(decimals_mean)
         => /\ ret = << Verdict("GRIM inapplicable (n too large for reported precision)",
                                "None", "None", Rat(mean, Pow10(decimals_mean))) >>
            /\ realsum = 0
      /\ (n >= 1 /\ n <= Pow10(decimals_mean) /\ ~GrimHolds(NearestSum))
         => /\ ret = << Verdict("GRIM inconsistent", "False", "None",
                                Rat(NearestSum, n)) >>
            /\ possible_integers = << >> /\ matches_sd = << >>

\* C22: gate precedence.  The gates are evaluated in the order applicability,
\* GRIM, sum-of-squares range, SD reconstruction, parity, and the first
\* failing gate alone decides the verdict: for n > 10^decimals_mean the output
\* does not depend on mean and sd (but for the echoed mean), and otherwise when
\* GRIM fails it does not depend on sd and decimals_sd, even when the SD is
\* infeasible as well.
C22_GatePrecedence == []FirstFailure /\ [][GateStep]_vars

\* C22 witness: a call has returned "GRIM inconsistent" although its
\* sum-of-squares window holds no integer either
C22_Witness ==
    /\ pc = "done" /\ n >= 2 /\ n <= Pow10(decimals_mean)
    /\ ~GrimHolds(NearestSum)
    /\ Window(NearestSum) = {}
    /\ TheVerdict.result = "GRIM inconsistent"
    /\ TheVerdict.grimmer_passed = "None"


\* realmean = realsum / n lies exactly halfway between two adjacent values with
\* decimals_mean decimals, and the reported mean is one of the two
MeanHalfway ==
    2 * Abs(NearestSum * Pow10(decimals_mean) - mean * n) = n

\* sqrt((x - r^2 / n) / (n - 1)) lies exactly halfway between two adjacent
\* values with decimals_sd decimals, and the reported sd is one of the two
SdHalfway(r, x) ==
    LET p == Pow10(decimals_sd)
        v == 4 * (x * n - r * r) * p * p
    IN  \/ v = (2 * sd + 1) * (2 * sd + 1) * n * (n - 1)
        \/ sd >= 1 /\ v = (2 * sd - 1) * (2 * sd - 1) * n * (n - 1)

\* C23: both rounding directions are accepted.  When realmean lies exactly
\* halfway between two adjacent reportable means a < b, GRIM passes for the
\* reported mean a and for the reported mean b (n = 8 with mean 3.37 or 3.38);
\* and a candidate whose reconstructed SD lies exactly halfway between two
\* adjacent reportable values passes the SD-rounding test for either as sd.
C23_BothDirections ==
    /\ ( /\ pc \notin {"guard", "grim"}
         /\ n >= 1 /\ n <= Pow10(decimals_mean)
         /\ MeanHalfway )
       => /\ pc # "raised"
          /\ pc = "done" => TheVerdict.grim_passed = "True"
    /\ (pc = "done" /\ (IsCall(8, 337, 150, 2, 2) \/ IsCall(8, 338, 150, 2, 2)))
       => /\ TheVerdict.grim_passed = "True"
          /\ TheVerdict.reconstructed_mean = Rat(27, 8)
    /\ PastGrim
       => \A k \in 1 .. Len(matches_sd) :
              SdHalfway(NearestSum, possible_integers[k]) => matches_sd[k]

\* C23 witness: a call has ended whose reported mean is the upper neighbour of
\* a halfway realmean and whose reported sd is the upper neighbour of the
\* halfway SD of a candidate, which was recorded as matching
C23_Witness ==
    /\ PastGrim /\ pc = "done"
    /\ MeanHalfway /\ mean * n > NearestSum * Pow10(decimals_mean)
    /\ \E k \in 1 .. Len(matches_sd) :
           /\ matches_sd[k]
           /\ sd >= 1
           /\ 4 * (possible_integers[k] * n - NearestSum * NearestSum)
                  * Pow10(decimals_sd) * Pow10(decimals_sd)
                = (2 * sd - 1) * (2 * sd - 1) * n * (n - 1)


\* the position of a stage in the order of the code
StageRank(stage_pc) ==
    CASE stage_pc = "guard" -> 0
      [] stage_pc = "grim" -> 1
      [] stage_pc = "bounds" -> 2
      [] stage_pc = "loop" -> 3
      [] stage_pc = "parity" -> 4
      [] OTHER -> 5

\* a step goes on to a later stage, or is one more iteration of the loop
Forward ==
    \/ StageRank(pc') > StageRank(pc)
    \/ /\ pc = "loop" /\ pc' = "loop"
       /\ Len(matches_sd') = Len(matches_sd) + 1

\* the iterations the candidate loop has begun: those completed, and the one
\* that raised
Iterations ==
    Len(matches_sd) + (IF pc = "raised" /\ possible_integers # << >> THEN 1 ELSE 0)

\* once the loop is over, it has performed as many iterations as there are
\* integers from ceil(lower_bound) to floor(upper_bound)
IterationCount ==
    ( /\ pc \in {"parity", "done", "raised"}
      /\ n >= 1 /\ n <= Pow10(decimals_mean)
      /\ GrimHolds(NearestSum) )
    => Iterations = Cardinality(Window(NearestSum))

GrimStagePassed ==
    \/ pc \in {"bounds", "loop", "parity", "raised"}
    \/ pc = "done" /\ TheVerdict.grim_passed = "True"

\* the integers that can be the sum of n values whose mean is reported as mean
SumRange ==
    LET m == CeilDiv(Abs(mean) * n, Pow10(decimals_mean)) + 1
    IN  (-m) .. m

\* mean * n lies exactly halfway between two integers
SumHalfway == (2 * mean * n) % (2 * Pow10(decimals_mean)) = Pow10(decimals_mean)

Enumerated == { possible_integers[k] : k \in 1 .. Len(possible_integers) }

\* C26: the sum-of-squares window never discards a feasible candidate.  For
\* n >= 2, every integer x whose reconstructed SD exists and rounds (half-up or
\* half-down) to the reported sd is one of the integers the code enumerates; a
\* call for which some such x has the parity of the sum does not return
\* "GRIMMER inconsistent".
C26_WindowKeepsFeasible ==
    (PastGrim /\ pc = "done") =>
      /\ \A x \in Candidates(NearestSum) :
             SdHolds(NearestSum, x) => x \in Enumerated
      /\ (\E x \in Candidates(NearestSum) :
              SdHolds(NearestSum, x) /\ x % 2 = NearestSum % 2)
         => TheVerdict.result = "consistent"


\* C27: for n >= 2 every enumerated candidate x has a non-negative reconstructed
\* variance (x - realsum^2 / n) / (n - 1), so the negative-variance branch of the
\* candidate loop is never taken.
C27_VarianceNonNegative ==
    (pc \in {"loop", "parity", "done"} /\ n >= 2) =>
        \A k \in 1 .. Len(possible_integers) :
            /\ possible_integers[k] * n >= NearestSum * NearestSum
            /\ Var(possible_integers[k]).num >= 0

\* C27 witness: the loop has examined a candidate whose variance is exactly 0
\* and a candidate whose variance is positive
C27_Witness ==
    /\ pc = "done" /\ n >= 2
    /\ Len(matches_sd) = Len(possible_integers)
    /\ \E k \in 1 .. Len(possible_integers) :
           possible_integers[k] * n = NearestSum * NearestSum
    /\ \E k \in 1 .. Len(possible_integers) :
           possible_integers[k] * n > NearestSum * NearestSum


\* C28: the boundary of the applicability guard.  When n equals
\* 10^decimals_mean the guard does not fire and the reported mean, whatever it
\* is, passes the GRIM stage: realsum / n is the reported mean itself, and a
\* returned verdict has grim_passed true.
C28_GuardBoundary ==
    (n = Pow10(decimals_mean) /\ pc \notin {"guard", "grim"}) =>
        /\ GrimStagePassed
        /\ realsum * Pow10(decimals_mean) = mean * n
        /\ pc = "done" =>
              /\ TheVerdict.result \in {"consistent", "GRIMMER inconsistent"}
              /\ TheVerdict.grim_passed = "True"
              /\ TheVerdict.reconstructed_mean = Rat(mean, Pow10(decimals_mean))

\* C28 witness: a call with n = 10 and one decimal of the mean, the mean not an
\* integer, has returned with grim_passed true
C28_Witness ==
    /\ pc = "done" /\ n = 10 /\ decimals_mean = 1
    /\ mean % 10 # 0
    /\ TheVerdict.grim_passed = "True"


\* the reported mean without its integer part
BaseMean == mean % Pow10(decimals_mean)

\* the integer nearest to BaseMean * n, ties to the even integer
BaseSum ==
    LET p == Pow10(decimals_mean)
        f == FloorDiv(BaseMean * n, p)
    IN  CHOOSE r \in {f, f + 1} :
            /\ 2 * Abs(r * p - BaseMean * n) <= p
            /\ 2 * Abs(r * p - BaseMean * n) = p => r % 2 = 0

\* y / (n * (n - 1)) is the variance of n integers with sum BaseSum and sum of
\* squares (y + BaseSum^2) / n; the largest y whose SD can round to sd
BaseTop ==
    FloorDiv((2 * sd + 1) * (2 * sd + 1) * n * (n - 1),
             4 * Pow10(decimals_sd) * Pow10(decimals_sd))

\* what the stages decide for the mean BaseMean, in exact arithmetic
BaseResult ==
    IF ~RoundsTo(BaseSum, n, decimals_mean, BaseMean) THEN "GRIM inconsistent"
    ELSE IF \E y \in 0 .. BaseTop :
                /\ (y + BaseSum * BaseSum) % n = 0
                /\ SqrtRoundsTo(y, n * (n - 1), decimals_sd, sd)
                /\ ((y + BaseSum * BaseSum) \div n) % 2 = BaseSum % 2
         THEN "consistent"
         ELSE "GRIMMER inconsistent"

\* a call whose mean has no integer part returns what BaseResult says
BaseCallAgrees ==
    (pc = "done" /\ n >= 2 /\ n <= Pow10(decimals_mean) /\ mean = BaseMean)
        => TheVerdict.result = BaseResult

\* C29: translation invariance.  For n >= 2 the result and the two flags of
\* a_grimmer(n, mean + k, sd) are those of a_grimmer(n, mean, sd) for every
\* integer k: the verdict is the one of the call whose mean is reduced to
\* BaseMean, which does not depend on the integer part of the mean.
C29_TranslationInvariance ==
    (pc = "done" /\ n >= 2 /\ n <= Pow10(decimals_mean)) =>
        /\ TheVerdict.result = BaseResult
        /\ TheVerdict.grim_passed =
               (IF BaseResult = "GRIM inconsistent" THEN "False" ELSE "True")
        /\ TheVerdict.grimmer_passed =
               (IF BaseResult = "GRIM inconsistent" THEN "None"
                ELSE IF BaseResult = "consistent" THEN "True" ELSE "False")


\* the integer nearest to |mean| * n, ties to the even integer
AbsSum ==
    LET p == Pow10(decimals_mean)
        f == FloorDiv(Abs(mean) * n, p)
    IN  CHOOSE r \in {f, f + 1} :
            /\ 2 * Abs(r * p - Abs(mean) * n) <= p
            /\ 2 * Abs(r * p - Abs(mean) * n) = p => r % 2 = 0

\* what the stages decide for the mean |mean|
AbsResult ==
    IF n > Pow10(decimals_mean)
    THEN "GRIM inapplicable (n too large for reported precision)"
    ELSE IF ~RoundsTo(AbsSum, n, decimals_mean, Abs(mean)) THEN "GRIM inconsistent"
    ELSE IF \E x \in Candidates(AbsSum) :
                /\ InWindow(AbsSum, x) /\ SdHolds(AbsSum, x)
                /\ x % 2 = AbsSum % 2
         THEN "consistent"
         ELSE "GRIMMER inconsistent"

\* the reconstructed mean of the call with the mean |mean|
AbsMean ==
    IF n > Pow10(decimals_mean) THEN Rat(Abs(mean), Pow10(decimals_mean))
                                ELSE Rat(AbsSum, n)

\* C30: sign symmetry.  For n >= 2, a_grimmer(n, -mean, sd) returns the result
\* and the flags of a_grimmer(n, mean, sd) and the negated reconstructed_mean:
\* the verdict of a call is the one for |mean|, with the reconstructed mean
\* carrying the sign of the mean.
C30_SignSymmetry ==
    (pc = "done" /\ n >= 2) =>
        /\ TheVerdict.result = AbsResult
        /\ TheVerdict.grim_passed =
               (IF n > Pow10(decimals_mean) THEN "None"
                ELSE IF AbsResult = "GRIM inconsistent" THEN "False" ELSE "True")
        /\ TheVerdict.grimmer_passed =
               (IF n > Pow10(decimals_mean) \/ AbsResult = "GRIM inconsistent" THEN "None"
                ELSE IF AbsResult = "consistent" THEN "True" ELSE "False")
        /\ TheVerdict.reconstructed_mean =
               (IF mean < 0 THEN [AbsMean EXCEPT !.num = -AbsMean.num] ELSE AbsMean)

\* C30 witness: a call with a negative mean and an odd realsum, whose realmean
\* lies halfway between two reportable means, has returned "consistent"
C30_Witness ==
    /\ pc = "done" /\ n >= 2 /\ mean < 0
    /\ NearestSum % 2 = 1
    /\ MeanHalfway
    /\ TheVerdict.result = "consistent"


---------------------------------------------------------------------------
(* Claims about the rounding helpers.  v is arg_number, d is arg_decimals, *)
(* and results are in units of 10^-d.                                      *)

BothRounded == half_down # << >> /\ half_up # << >>

\* the largest integer k with k <= num/den * 10^d (or sqrt(num/den) * 10^d)
LowerNeighbour ==
    LET f == Pow10(arg_decimals)
    IN  IF arg_number.root = 1
        THEN FloorDiv(arg_number.num * f, arg_number.den)
        ELSE ISqrtFloor(arg_number.num * f * f, arg_number.den)

\* num/den * 10^d (or sqrt(num/den) * 10^d) is LowerNeighbour + 1/2
BaseHalfway ==
    LET f == Pow10(arg_decimals)
        k == LowerNeighbour
    IN  IF arg_number.root = 1
        THEN (2 * k + 1) * arg_number.den = 2 * arg_number.num * f
        ELSE (2 * k + 1) * (2 * k + 1) * arg_number.den = 4 * arg_number.num * f * f

\* v is exactly halfway between two adjacent multiples of 10^-d
Halfway == BaseHalfway /\ arg_number.eps = 0

\* v * 10^d has a fractional part within 1e-10 of 0.5
NearlyHalfway == BaseHalfway /\ 10 * Pow10(arg_decimals) * Abs(arg_number.eps) < EpsPerTol

\* j / 10^d is the multiple of 10^-d nearest to v, for v not exactly halfway
IsNearest(j) ==
    LET f == Pow10(arg_decimals)
        v == arg_number
    IN  IF v.root = 1
        THEN \/ 2 * Abs(j * v.den - v.num * f) < v.den
             \/ 2 * (j * v.den - v.num * f) = v.den /\ v.eps > 0
             \/ 2 * (v.num * f - j * v.den) = v.den /\ v.eps < 0
        ELSE /\ j >= 0
             /\ 4 * v.num * f * f < (2 * j + 1) * (2 * j + 1) * v.den
             /\ j = 0 \/ (2 * j - 1) * (2 * j - 1) * v.den < 4 * v.num * f * f

\* C12 as claimed: for every v and d such that v * 10^d does not have the
\* fractional part exactly 0.5, _round_half_down(v, d) = _round_half_up(v, d)
\* = v rounded to the nearest multiple of 10^-d; the two results differ only
\* when v is exactly halfway
C12_AgreeOffExactHalfway ==
    BothRounded =>
      /\ ~Halfway => (half_down = half_up /\ IsNearest(half_down[1]))
      /\ half_down # half_up => Halfway

\* C12 amended: the two helpers agree, and return v rounded to the nearest
\* multiple of 10^-d, for every v and d such that the fractional part of
\* v * 10^d differs from 0.5 by 1e-10 or more; they differ exactly when it is
\* within 1e-10 of 0.5 (abs(is_five - 5) < 1e-9), v being exactly halfway or not
C12_AgreeOffTolerance ==
    BothRounded =>
      /\ ~NearlyHalfway => (half_down = half_up /\ IsNearest(half_down[1]))
      /\ half_down # half_up <=> NearlyHalfway

\* C12 witness: a value 5e-9 above a halfway point has been rounded by both
\* helpers, to the upper neighbour
C12_Witness ==
    /\ BothRounded /\ BaseHalfway /\ arg_number.eps = EpsFar /\ arg_decimals = 2
    /\ half_down = << LowerNeighbour + 1 >> /\ half_up = half_down

\* C13: for every v, positive or negative, exactly halfway between two
\* adjacent multiples of 10^-d, _round_half_down(v, d) is the lower neighbour
\* (towards minus infinity) and _round_half_up(v, d) the upper neighbour
\* (towards plus infinity); the two results differ by exactly 10^-d
C13_HalfwayNeighbours ==
    (BothRounded /\ Halfway) =>
      LET f == Pow10(arg_decimals)
          v == arg_number
          lo == half_down[1]
          hi == half_up[1]
      IN  /\ hi = lo + 1
          /\ IF v.root = 1
             THEN 2 * lo * v.den < 2 * v.num * f /\ 2 * v.num * f < 2 * hi * v.den
             ELSE /\ lo >= 0
                  /\ lo * lo * v.den < v.num * f * f
                  /\ v.num * f * f < hi * hi * v.den

\* C13 witness: a negative halfway value has been rounded by both helpers
C13_Witness ==
    /\ BothRounded /\ Halfway /\ arg_number.num < 0 /\ arg_decimals = 1
    /\ half_up[1] = half_down[1] + 1
    /\ half_up[1] <= 0

---------------------------------------------------------------------------
(* The Tier-0 lookups: what a failed request is, stated on the response    *)

\* the entries of a sequence
Entries(seq) == { seq[k] : k \in 1 .. Len(seq) }

\* the request got no document: a network error, an HTTP error status or a
\* body that is not JSON
NoDocument(resp) == resp.status \in {"network_error", "http_error", "bad_json"}

\* the document reports no match: DOAJ's total is 0 or absent, a result list
\* is empty or absent, a work has no update-to, PubPeer lists no publication
EmptyResponse(resp) ==
    /\ resp.status = "ok"
    /\ \/ "total" \in DOMAIN resp /\ resp.total \in {"absent", "zero"}
       \/ "issn_l" \in DOMAIN resp /\ resp.results \in {"absent", "empty"}
       \/ /\ "updates" \in DOMAIN resp
          /\ resp.message = "absent" \/ (resp.message = "dict" /\ resp.updates = << >>)
       \/ /\ "items" \in DOMAIN resp
          /\ resp.message = "absent" \/ (resp.message = "dict" /\ resp.items = << >>)
       \/ "pubs" \in DOMAIN resp /\ resp.form # "null" /\ resp.pubs \in {"absent", "empty"}
       \/ "author" \in DOMAIN resp /\ resp.results \in {"absent", "empty"}

\* the document has a part of the wrong type, or lacks the entry it announces
MalformedResponse(resp) ==
    /\ resp.status = "ok"
    /\ ~EmptyResponse(resp)
    /\ \/ /\ "total" \in DOMAIN resp
          /\ \/ resp.total \in {"not_a_dict", "not_a_number"}
             \/ resp.results \in {"absent", "empty", "bad"}
             \/ resp.publisher = "not_a_dict"
             \/ "bad" \in Entries(resp.identifier)
       \/ "issn_l" \in DOMAIN resp /\ resp.results \in {"not_a_dict", "bad"}
       \/ /\ "updates" \in DOMAIN resp
          /\ resp.message = "not_a_dict" \/ BadUpd \in Entries(resp.updates)
       \/ /\ "items" \in DOMAIN resp
          /\ \/ resp.message = "not_a_dict"
             \/ \E item \in Entries(resp.items) :
                    item = BadItem \/ BadUpd \in Entries(item.updates)
       \/ "pubs" \in DOMAIN resp /\ (resp.form = "null" \/ resp.pubs = "bad")
       \/ /\ "author" \in DOMAIN resp
          /\ \/ resp.results \in {"not_a_dict", "bad"}
             \/ /\ resp.results = "entry"
                /\ \/ resp.author.summary_stats = BadStats
                   \/ resp.author.affiliations \in {"bad", "null_institution"}
                   \/ /\ resp.author.affiliations = "absent"
                      /\ resp.author.last_known_institutions = "bad"
                   \/ BadTopic \in Entries(resp.author.topics)

\* the documented keys of the three results
DocumentedKeys ==
    CASE fn = "check_journal" ->
             {"in_doaj", "publisher", "works_count", "cited_by_count", "is_oa", "issn"}
      [] fn = "check_retraction" ->
             {"retracted", "corrections", "pubpeer_comments", "pubpeer_url"}
      [] fn = "check_author" ->
             {"works_count", "cited_by_count", "h_index", "institution", "top_fields",
              "orcid"}

\* the remote requests of a call, in order
AllRequests ==
    CASE fn = "check_journal" -> << "doaj", "sources" >>
      [] fn = "check_retraction" -> << "work", "filter", "pubpeer" >>
      [] fn = "check_author" -> << "author" >>

\* no exception has left the function, the result has its documented keys, and
\* a call that reaches its return has attempted every one of its requests
NeverRaises ==
    /\ lookup_exc = "none" /\ stage # "raised"
    /\ DOMAIN lookup_result = DocumentedKeys
    /\ stage \in {"return", "returned"} => requests_made = AllRequests

\* a request has just been made and response' is its response
RequestMade == requests_made' # requests_made

\* C17 as claimed: the lookups never raise, return all documented keys and
\* attempt every request, and a request that fails (no document, a malformed
\* document or an empty one) leaves every field of the result as it was.
C17_FailedRequestFillsNothing ==
    /\ []NeverRaises
    /\ [][(RequestMade /\ (\/ NoDocument(response')
                           \/ MalformedResponse(response')
                           \/ EmptyResponse(response')))
          => lookup_result' = lookup_result]_vars

\* the author record is fetched by ORCID: the document itself is the record
ByOrcid == fn = "check_author" /\ orcid \notin {"None", ""}

\* C17, amended: the lookups never raise, return all documented keys and
\* attempt every request; a request that gets no document, or (except for
\* check_author by ORCID) an empty one, leaves every field of the result as
\* it was.  A malformed document may have filled fields before its malformed
\* part was read.
C17_NoDocumentFillsNothing ==
    /\ []NeverRaises
    /\ [][(RequestMade /\ (\/ NoDocument(response')
                           \/ EmptyResponse(response') /\ ~ByOrcid))
          => lookup_result' = lookup_result]_vars

\* check_retraction has returned after its last request failed on the network,
\* with the retraction found by an earlier request still in the result
C17_Witness ==
    /\ fn = "check_retraction" /\ stage = "returned"
    /\ requests_made = << "work", "filter", "pubpeer" >>
    /\ response.status = "network_error"
    /\ lookup_result.retracted = TRUE
    /\ lookup_result.pubpeer_comments = 0

---------------------------------------------------------------------------
(* check_p_value: the decision error *)

\* the dict check_p_value returned
PResult == p_ret[1]

\* C18: when reported_p is given, decision_error is True exactly when one and
\* only one of reported_p < alpha and computed_p < alpha holds (computed_p as
\* returned), whatever reported_comparison is, and is otherwise False; when
\* reported_p is not given, consistent and decision_error are None.
C18_DecisionError ==
    p_stage = "returned" =>
        LET reported == check_p_args.reported_p
            reported_significant ==
                reported.value # PNaN /\ reported.value < check_p_args.alpha
            computed_significant ==
                PResult.computed_p # PNaN /\ PResult.computed_p < check_p_args.alpha
        IN  IF reported.given
            THEN /\ PResult.decision_error \in {"True", "False"}
                 /\ PResult.decision_error = "True"
                        <=> \/ reported_significant /\ ~computed_significant
                            \/ computed_significant /\ ~reported_significant
            ELSE PResult.consistent = "None" /\ PResult.decision_error = "None"

\* the call of test_decision_error has returned: t reported with p = 0.04 and
\* recomputed as 0.149
C18_Witness ==
    /\ p_stage = "returned"
    /\ check_p_args.test_type = "t"
    /\ check_p_args.reported_p = [given |-> TRUE, value |-> 1600, decimals |-> 2]
    /\ check_p_args.alpha = 2000
    /\ PResult.computed_p = 5960
    /\ PResult.decision_error = "True"

---------------------------------------------------------------------------
(* achieved_power: the adequacy flag *)

\* the dict achieved_power returned
PowerResult == power_ret[1]

\* C19: in every result of achieved_power, adequate is True if and only if
\* the power of the same dict is at least 0.80, and the interpretation is the
\* "Adequate" text exactly when adequate is True.
C19_AdequateIffPower ==
    power_stage = "returned" =>
        /\ PowerResult.adequate
               <=> (PowerResult.power # PNaN /\ 100 * PowerResult.power >= 80 * PwrDen)
        /\ PowerResult.interpretation = "Adequate" <=> PowerResult.adequate

====
